---- MODULE Spec2Model ----
(***************************************************************************)
(* A model of zmerald: the serializer and its pretty printer               *)
(* (src/src/ser/mod.rs), the dynamic value model (src/src/value.rs) and    *)
(* the text decoder that src/src/de/tests.rs exercises.                    *)
(*                                                                         *)
(* Text is a sequence of one-character strings, so that writing and        *)
(* reading are both done character by character.                           *)
(***************************************************************************)
EXTENDS Integers, Sequences, FiniteSets, TLC

(***************************************************************************)
(* Bounds of the model.                                                    *)
(***************************************************************************)
\* nodes of a composite value serialized in canonical mode
MaxNodes == 3
\* nodes of a composite value serialized in pretty mode
MaxNodesPretty == 3
\* characters of a string value
MaxStrLen == 2
\* finite depth limits a PrettyConfig is given: 0..MaxDepthLimit
MaxDepthLimit == 1
\* keys of a Map: 0..MaxKey
MaxKey == 2
\* nodes of a value written to a sink that may fail
MaxNodesWriter == 2

\* PrettyConfig::default().depth_limit is !0, the largest usize; the model
\* writes the largest integer the checker represents in its place.
USIZE_MAX == 2147483647

(***************************************************************************)
(* Values handed to the serializer, in serde's data model.  A value is a   *)
(* record  [kind, name, num, text, kids]:                                  *)
(*   name  the struct / variant name (a sequence of characters),           *)
(*   num   the payload of a bool (0/1), of an integer, of a float (in      *)
(*         tenths), of a char (its index in Chars); for a seq or a map 1   *)
(*         when the length is known to the caller (Some(len)), else 0,     *)
(*   text  the characters of a str,                                        *)
(*   kids  the children: payload, elements, field values, or for a map     *)
(*         key1, value1, key2, value2, ...                                 *)
(***************************************************************************)
Mk(kind, name, num, text, kids) ==
    [kind |-> kind, name |-> name, num |-> num, text |-> text, kids |-> kids]

Leaf(kind, num) == Mk(kind, <<>>, num, <<>>, <<>>)

StructName == <<"S">>
VariantName == <<"V">>
\* a variant renamed to something that is no identifier (de/tests.rs, rename)
RawName == <<"2", "d">>
FieldNames == <<<<"x">>, <<"y">>, <<"z">>, <<"w">>>>

\* the characters char and str values are made of
Chars == <<"a", " ", "'", "\\", "\"", "\n", ",">>

SIntKinds == {"i8", "i16", "i32", "i64"}
UIntKinds == {"u8", "u16", "u32", "u64"}
FloatKinds == {"f32", "f64"}
WrapperKinds == {"some", "newtype_struct", "newtype_variant"}
TupleKinds == {"tuple", "tuple_struct", "tuple_variant"}
StructKinds == {"struct", "struct_variant"}
PrimKinds == {"bool", "char", "str"} \cup SIntKinds \cup UIntKinds

IntSamples(kind) ==
    CASE kind = "i8" -> {-128, -1, 0, 127}
      [] kind = "i16" -> {-32768, 32767}
      [] kind = "i32" -> {-2147483647, 2147483647}
      [] kind = "i64" -> {-1000000, 10}
      [] kind = "u8" -> {0, 9, 255}
      [] kind = "u16" -> {10, 65535}
      [] kind = "u32" -> {100, 2147483647}
      [] kind = "u64" -> {1, 1000000}

\* floats, in tenths: 0, 0.3, 3.5, 4, -1.5, -2
FloatSamples == {0, 3, 35, 40, -15, -20}

RECURSIVE StringsUpTo(_)
StringsUpTo(n) ==
    IF n = 0 THEN {<<>>}
    ELSE LET shorter == StringsUpTo(n - 1)
         IN  shorter \cup {Append(s, Chars[i]) : s \in shorter, i \in 1..Len(Chars)}

\* the primitive and unit-like values serialized on their own
PrimValues ==
    {Leaf("bool", b) : b \in {0, 1}}
    \cup UNION {{Leaf(k, n) : n \in IntSamples(k)} : k \in SIntKinds \cup UIntKinds}
    \cup {Leaf(k, t) : k \in FloatKinds, t \in FloatSamples}
    \cup {Leaf("char", i) : i \in 1..Len(Chars)}
    \cup {Mk("str", <<>>, 0, s, <<>>) : s \in StringsUpTo(MaxStrLen)}
    \cup {Mk("unit_variant", RawName, 0, <<>>, <<>>)}

\* the leaves composite values are built of
CompLeaves ==
    { Leaf("bool", 1), Leaf("unit", 0), Leaf("none", 0),
      Mk("unit_struct", StructName, 0, <<>>, <<>>),
      Mk("unit_variant", VariantName, 0, <<>>, <<>>) }

\* ... and those added in canonical mode: 3.5 and ' '
MoreLeaves == {Leaf("f32", 35), Leaf("char", 2)}

\* map keys, in the order a BTreeMap<bool, _> iterates them
MapKeys == <<Leaf("bool", 0), Leaf("bool", 1)>>

NameOf(kind) ==
    IF kind \in {"newtype_struct", "tuple_struct", "struct", "unit_struct"}
    THEN StructName
    ELSE IF kind \in {"newtype_variant", "tuple_variant", "struct_variant", "unit_variant"}
         THEN VariantName
         ELSE <<>>

RECURSIVE Interleave(_, _)
\* key1, value1, key2, value2, ... for the values vs
Interleave(i, vs) ==
    IF vs = <<>> THEN <<>>
    ELSE <<MapKeys[i], Head(vs)>> \o Interleave(i + 1, Tail(vs))

\* the composites with children cs (cs = <<>>: the empty ones); a sequence is
\* serialized with its length known (num = 1) or not (num = 0), a map with
\* its length known
MultiOver(cs) ==
    {Mk(k, NameOf(k), 0, <<>>, cs) : k \in TupleKinds \cup StructKinds}
    \cup {Mk("seq", <<>>, known, <<>>, cs) : known \in {0, 1}}
    \cup (IF Len(cs) <= Len(MapKeys)
          THEN {Mk("map", <<>>, 1, <<>>, Interleave(1, cs))}
          ELSE {})

RECURSIVE TreesOfSize(_, _), ForestsOf(_, _, _)
\* the values with exactly n nodes (map keys are not counted) over leaves
TreesOfSize(n, leaves) ==
    IF n = 1 THEN leaves \cup MultiOver(<<>>)
    ELSE {Mk(k, NameOf(k), 0, <<>>, <<t>>) :
              k \in WrapperKinds, t \in TreesOfSize(n - 1, leaves)}
         \cup UNION {MultiOver(cs) :
                         cs \in UNION {ForestsOf(n - 1, len, leaves) : len \in 1..(n - 1)}}

\* the sequences of len values with n nodes in all
ForestsOf(n, len, leaves) ==
    IF len = 1 THEN {<<t>> : t \in TreesOfSize(n, leaves)}
    ELSE UNION {{<<t>> \o f : t \in TreesOfSize(i, leaves),
                              f \in ForestsOf(n - i, len - 1, leaves)}
                : i \in 1..(n - len + 1)}

TreesUpTo(n, leaves) == UNION {TreesOfSize(i, leaves) : i \in 1..n}

RECURSIVE TuplesUpTo(_, _)
\* the sequences of at most n members of set
TuplesUpTo(n, set) ==
    IF n = 0 THEN {<<>>}
    ELSE LET shorter == TuplesUpTo(n - 1, set)
         IN  shorter \cup {Append(q, e) : q \in shorter, e \in set}

\* the composites of the given kinds with children cs
KindsOver(kinds, cs) == {v \in MultiOver(cs) : v.kind \in kinds}

RECURSIVE NestedOfSize(_, _, _), NestedForests(_, _, _, _)
\* the values with exactly n nodes whose composites are of the given kinds
NestedOfSize(n, kinds, leaves) ==
    IF n = 1 THEN leaves \cup KindsOver(kinds, <<>>)
    ELSE {Mk(k, NameOf(k), 0, <<>>, <<t>>) :
              k \in WrapperKinds \cap kinds, t \in NestedOfSize(n - 1, kinds, leaves)}
         \cup UNION {KindsOver(kinds, cs) :
                         cs \in UNION {NestedForests(n - 1, len, kinds, leaves) :
                                           len \in 1..(n - 1)}}

NestedForests(n, len, kinds, leaves) ==
    IF len = 1 THEN {<<t>> : t \in NestedOfSize(n, kinds, leaves)}
    ELSE UNION {{<<t>> \o f : t \in NestedOfSize(i, kinds, leaves),
                              f \in NestedForests(n - i, len - 1, kinds, leaves)}
                : i \in 1..(n - len + 1)}

NestedUpTo(n, kinds, leaves) == UNION {NestedOfSize(i, kinds, leaves) : i \in 1..n}

(***************************************************************************)
(* The serializer: struct Serializer (ser/mod.rs 136-141), its private     *)
(* Pretty state (39-42) and the PrettyConfig it was created with (47-58).  *)
(***************************************************************************)
VARIABLES
    value,             \* the value handed to to_string / to_writer
    config,            \* Option<PrettyConfig>: the `some` field tells which
    sink,              \* the writer W: "vec" (never fails) or "faulty"
    output,            \* the characters written to the sink so far
    is_empty,          \* Serializer.is_empty : Option<bool>
    newtype_variant,   \* Serializer.newtype_variant
    indent,            \* Pretty.indent
    sequence_index,    \* Pretty.sequence_index
    cur,               \* <<v>>: v.serialize(serializer) is the next call; else <<>>
    stack,             \* the open handlers and Compounds, innermost last
    result             \* "running", or what the call returned

serVars == <<value, config, sink, output, is_empty, newtype_variant, indent,
             sequence_index, cur, stack, result>>

\* the decoder: from_str(text) into a value of the shape target
VARIABLES
    text,              \* the text handed to from_str
    target,            \* the shape decoded into
    token,             \* where the token that cannot be decoded starts in text; else 0
    decoded,           \* <<>>, or <<r>>: from_str returned r
    expected,          \* what the text was written from, where the text is built from a value
    cursor,            \* the lexer's cursor while an untagged enum is decoded
    snapshot,          \* the cursor saved before the candidates are attempted
    candidate,         \* the candidate attempted next; 0 when none is
    last               \* <<>>, or <<r>>: what the last attempt returned

deVars == <<text, target, token, decoded, expected, cursor, snapshot, candidate, last>>

\* value.rs: two Maps under comparison, and a Value being decoded
VARIABLES
    lhs,               \* a Map: its entries <<key, value>> in iteration order
    rhs,               \* another Map
    equal,             \* <<>>, or <<b>>: lhs == rhs returned b
    dyn,               \* a Value
    request,           \* the Deserializer method called on dyn; "" before the call
    visited            \* <<>>, or <<c>>: the visitor call made, or the error returned

\* value.rs: struct MapAccessor (340-343), struct Seq (366-368) and the
\* visitor driving them
VARIABLES
    keys,              \* MapAccessor.keys: a Vec, its last element popped first
    values,            \* MapAccessor.values
    seq,               \* Seq.seq
    seen               \* what the accessor returned to the visitor, call by call

accessVars == <<keys, values, seq, seen>>

valueVars == <<lhs, rhs, equal, dyn, request, visited, accessVars>>
vars == <<serVars, deVars, valueVars>>

\* PrettyConfig::default(): the texts (the model keeps the defaults)
NEW_LINE == <<"\n">>
INDENTOR == <<" ", " ", " ", " ">>
SEPARATOR == <<" ">>

NoConfig ==
    [some |-> FALSE, depth_limit |-> USIZE_MAX, struct_names |-> FALSE,
     separate_tuple_members |-> FALSE, enumerate_arrays |-> FALSE,
     decimal_floats |-> FALSE, compact_arrays |-> FALSE]

DepthLimits == (0..MaxDepthLimit) \cup {USIZE_MAX}

\* the configurations a composite value is printed with
PrettyConfigs ==
    [some : {TRUE}, depth_limit : DepthLimits, struct_names : BOOLEAN,
     separate_tuple_members : BOOLEAN, enumerate_arrays : BOOLEAN,
     decimal_floats : {FALSE}, compact_arrays : BOOLEAN]

\* the configurations a value serialized on its own is printed with
LeafConfigs ==
    [some : {TRUE}, depth_limit : {0, USIZE_MAX}, struct_names : BOOLEAN,
     separate_tuple_members : {FALSE}, enumerate_arrays : {FALSE},
     decimal_floats : BOOLEAN, compact_arrays : {FALSE}]

separate_tuple_members == config.some /\ config.separate_tuple_members
decimal_floats == config.some /\ config.decimal_floats
compact_arrays == config.some /\ config.compact_arrays
struct_names == config.some /\ config.struct_names

RECURSIVE Repeat(_, _)
Repeat(s, n) == IF n <= 0 THEN <<>> ELSE s \o Repeat(s, n - 1)

\* is_empty.unwrap_or(false)
IsEmptyOrFalse(ie) == ie = "Some(true)"
SomeBool(b) == IF b THEN "Some(true)" ELSE "Some(false)"

\* start_indent, entered with indent ind and is_empty ie: the text it writes
StartIndentText(ind, ie) ==
    IF config.some /\ ind + 1 <= config.depth_limit /\ ~IsEmptyOrFalse(ie)
    THEN NEW_LINE ELSE <<>>
\* a start_indent without `pretty.indent += 1`
StartIndentLevelKept(ind) == ind
\* ... and the indent it leaves
StartIndentLevel(ind) == IF config.some THEN ind + 1 ELSE ind

\* indent(): the text it writes at indent ind
IndentText(ind) ==
    IF config.some /\ ind <= config.depth_limit THEN Repeat(INDENTOR, ind) ELSE <<>>

\* end_indent, entered with indent ind and is_empty ie: the text it writes
EndIndentText(ind, ie) ==
    IF config.some /\ ind <= config.depth_limit /\ ~IsEmptyOrFalse(ie)
    THEN Repeat(INDENTOR, ind - 1) ELSE <<>>
\* an end_indent without `pretty.indent -= 1`
EndIndentLevelKept(ind) == ind
\* ... the indent it leaves (a release build wraps 0 - 1 around)
EndIndentLevel(ind) ==
    IF config.some THEN (IF ind = 0 THEN USIZE_MAX ELSE ind - 1) ELSE ind
\* ... whether `pretty.indent -= 1` underflows
EndIndentUnderflows(ind) == config.some /\ ind = 0
\* ... and the is_empty it leaves
EndIndentIsEmpty(ie) == IF config.some THEN "None" ELSE ie

(***************************************************************************)
(* Formatting.                                                             *)
(***************************************************************************)
DigitChars == <<"0", "1", "2", "3", "4", "5", "6", "7", "8", "9">>

RECURSIVE FmtNat(_)
FmtNat(n) ==
    IF n < 10 THEN <<DigitChars[n + 1]>>
    ELSE FmtNat(n \div 10) \o <<DigitChars[(n % 10) + 1]>>

\* write!(self.output, "{}", value.into()) of an integer
FmtInt(n) == IF n < 0 THEN <<"-">> \o FmtNat(0 - n) ELSE FmtNat(n)

Abs(n) == IF n < 0 THEN 0 - n ELSE n

\* write!(self.output, "{}", v) of a float of t tenths
FmtFloat(t) ==
    (IF t < 0 THEN <<"-">> ELSE <<>>)
    \o FmtNat(Abs(t) \div 10)
    \o (IF Abs(t) % 10 = 0 THEN <<>> ELSE <<".", DigitChars[(Abs(t) % 10) + 1]>>)

\* (v - v.floor()).abs() < EPSILON
IsIntegral(t) == t % 10 = 0

\* char::escape_debug, on the characters of Chars
EscapeDebug(c) ==
    CASE c = "\n" -> <<"\\", "n">>
      [] c = "\"" -> <<"\\", "\"">>
      [] c = "'" -> <<"\\", "'">>
      [] c = "\\" -> <<"\\", "\\">>
      [] OTHER -> <<c>>

RECURSIVE EscapeAll(_)
EscapeAll(s) == IF s = <<>> THEN <<>> ELSE EscapeDebug(Head(s)) \o EscapeAll(Tail(s))

\* the string between quotes as it is, without escape_debug
quoted_str(s) == <<"\"">> \o s \o <<"\"">>

serialize_escaped_str(s) == <<"\"">> \o EscapeAll(s) \o <<"\"">>

Letters ==
    {"a", "b", "c", "d", "e", "f", "g", "h", "i", "j", "k", "l", "m", "n", "o", "p",
     "q", "r", "s", "t", "u", "v", "w", "x", "y", "z",
     "A", "B", "C", "D", "E", "F", "G", "H", "I", "J", "K", "L", "M", "N", "O", "P",
     "Q", "R", "S", "T", "U", "V", "W", "X", "Y", "Z"}
IsDigit(c) == c \in {"0", "1", "2", "3", "4", "5", "6", "7", "8", "9"}
\* parse::is_ident_first_char and parse::is_ident_other_char
is_ident_first_char(c) == c \in Letters \/ c = "_"
is_ident_other_char(c) == is_ident_first_char(c) \/ IsDigit(c)

\* write_identifier: the text it writes for name
write_identifier(name) ==
    IF name = <<>> \/ ~is_ident_first_char(name[1])
       \/ \E i \in 2..Len(name) : ~is_ident_other_char(name[i])
    THEN <<"r", "#">> \o name
    ELSE name

(***************************************************************************)
(* One step of the serializer.  A handler writes the text w and then       *)
(* leaves the state Upd describes.  Each write_all may fail when the sink  *)
(* is faulty: the call then returns the error at once (the `?`), with the  *)
(* characters before the failing one written.  to_writer drops the         *)
(* Serializer on return, so its other fields are left as they were.        *)
(* fault names an arithmetic or unwrap failure of the handler:             *)
(*   "unwrap"    sequence_index.last_mut().unwrap() on an empty stack,     *)
(*   "underflow" pretty.indent -= 1 at 0, which panics in a debug build    *)
(*               and wraps around in a release build.                      *)
(***************************************************************************)
Outcomes(w, fault) ==
    (IF fault = "none" THEN {} ELSE {-1})
    \cup (IF fault = "unwrap" THEN {}
          ELSE {0} \cup (IF sink = "faulty" THEN 1..Len(w) ELSE {}))

Handler(w, fault, Upd) ==
    /\ \E k \in Outcomes(w, fault) :
          IF k = 0
          THEN /\ output' = output \o w
               /\ result' = "running"
               /\ Upd
          ELSE /\ output' = (IF k = -1 THEN output ELSE output \o SubSeq(w, 1, k - 1))
               /\ result' = (IF k = -1 THEN "panic" ELSE "Err(Io)")
               /\ UNCHANGED <<is_empty, newtype_variant, indent, sequence_index,
                              cur, stack>>
    /\ UNCHANGED <<value, config, sink, deVars, valueVars>>

Expect(kinds) == result = "running" /\ cur # <<>> /\ cur[1].kind \in kinds

Top == stack[Len(stack)]
Pop == SubSeq(stack, 1, Len(stack) - 1)
Push(f) == Append(stack, f)
SetTop(f) == [stack EXCEPT ![Len(stack)] = f]

\* the handler (or the Compound a handler returned) that is still open
Frame(kind, nv, rest) ==
    [kind |-> kind, state |-> "First", newtype_variant |-> nv, rest |-> rest,
     phase |-> "key", taken |-> 0]

\* the innermost open handler is of kind k and waits for the driver
AtFrame(k) ==
    result = "running" /\ cur = <<>> /\ stack # <<>> /\ Top.kind = k

(***************************************************************************)
(* Values without children.                                                *)
(***************************************************************************)
LeafDone == /\ cur' = <<>>
            /\ UNCHANGED <<is_empty, newtype_variant, indent, sequence_index, stack>>

serialize_bool ==
    /\ Expect({"bool"})
    /\ Handler(IF cur[1].num = 1 THEN <<"t", "r", "u", "e">>
               ELSE <<"f", "a", "l", "s", "e">>, "none", LeafDone)

\* serialize_i8 .. serialize_i64, all through serialize_sint
serialize_sint ==
    /\ Expect(SIntKinds)
    /\ Handler(FmtInt(cur[1].num), "none", LeafDone)

\* serialize_u8 .. serialize_u64, all through serialize_uint
serialize_uint ==
    /\ Expect(UIntKinds)
    /\ Handler(FmtInt(cur[1].num), "none", LeafDone)

\* serialize_f32 and serialize_f64
serialize_float ==
    /\ Expect(FloatKinds)
    /\ Handler(FmtFloat(cur[1].num)
               \o (IF decimal_floats /\ IsIntegral(cur[1].num) THEN <<".", "0">> ELSE <<>>),
               "none", LeafDone)

serialize_char ==
    /\ Expect({"char"})
    /\ LET v == Chars[cur[1].num]
       IN  Handler(<<"'">> \o (IF v = "\\" \/ v = "'" THEN <<"\\">> ELSE <<>>)
                   \o <<v, "'">>, "none", LeafDone)

serialize_str ==
    /\ Expect({"str"})
    /\ Handler(serialize_escaped_str(cur[1].text), "none", LeafDone)

serialize_none ==
    /\ Expect({"none"})
    /\ Handler(<<"N", "o", "n", "e">>, "none", LeafDone)

\* what serialize_unit writes, and the flag it leaves
UnitText == IF ~newtype_variant THEN <<"(", ")">> ELSE <<>>

UnitDone == /\ cur' = <<>>
            /\ newtype_variant' = FALSE
            /\ UNCHANGED <<is_empty, indent, sequence_index, stack>>

serialize_unit ==
    /\ Expect({"unit"})
    /\ Handler(UnitText, "none", UnitDone)

serialize_unit_struct ==
    /\ Expect({"unit_struct"})
    /\ IF struct_names /\ ~newtype_variant
       THEN Handler(write_identifier(cur[1].name), "none", LeafDone)
       ELSE Handler(UnitText, "none", UnitDone)

serialize_unit_variant ==
    /\ Expect({"unit_variant"})
    /\ Handler(write_identifier(cur[1].name), "none", LeafDone)

(***************************************************************************)
(* Wrappers of one payload.                                                *)
(***************************************************************************)
serialize_some ==
    /\ Expect({"some"})
    /\ Handler(<<>>, "none",
               /\ cur' = <<cur[1].kids[1]>>
               /\ UNCHANGED <<is_empty, newtype_variant, indent, sequence_index, stack>>)

\* serialize_newtype_struct up to value.serialize
serialize_newtype_struct ==
    /\ Expect({"newtype_struct"})
    /\ Handler((IF struct_names THEN write_identifier(cur[1].name) ELSE <<>>) \o <<"(">>,
               "none",
               /\ cur' = <<cur[1].kids[1]>>
               /\ stack' = Push(Frame("newtype_struct", FALSE, <<>>))
               /\ UNCHANGED <<is_empty, newtype_variant, indent, sequence_index>>)

\* serialize_newtype_struct once value.serialize has returned
serialize_newtype_struct_return ==
    /\ AtFrame("newtype_struct")
    /\ Handler(<<")">>, "none",
               /\ stack' = Pop
               /\ UNCHANGED <<is_empty, newtype_variant, indent, sequence_index, cur>>)

\* the flag serialize_newtype_variant sets for its payload
PayloadFlag == TRUE

\* serialize_newtype_variant up to value.serialize
serialize_newtype_variant ==
    /\ Expect({"newtype_variant"})
    /\ Handler(write_identifier(cur[1].name) \o <<"(">>, "none",
               /\ newtype_variant' = PayloadFlag
               /\ cur' = <<cur[1].kids[1]>>
               /\ stack' = Push(Frame("newtype_variant", FALSE, <<>>))
               /\ UNCHANGED <<is_empty, indent, sequence_index>>)

\* serialize_newtype_variant once value.serialize has returned
serialize_newtype_variant_return ==
    /\ AtFrame("newtype_variant")
    /\ Handler(<<")">>, "none",
               /\ newtype_variant' = FALSE
               /\ stack' = Pop
               /\ UNCHANGED <<is_empty, indent, sequence_index, cur>>)

(***************************************************************************)
(* Sequences.                                                              *)
(***************************************************************************)
WithinLimit == indent <= config.depth_limit

\* the element or entry the driver hands over next
TakeNext == SetTop([Top EXCEPT !.state = "Rest", !.rest = Tail(@), !.taken = @ + 1])

\* a nested sequence that goes on counting where the enclosing one is
ContinueIndex(si) == Append(si, IF si = <<>> THEN 0 ELSE si[Len(si)])

\* pretty.sequence_index.push(0)
PushIndex(si) == Append(si, 0)

serialize_seq ==
    /\ Expect({"seq"})
    /\ LET v == cur[1]
           ie == IF v.num = 1 THEN SomeBool(Len(v.kids) = 0) ELSE is_empty
       IN  Handler(<<"[">> \o (IF ~compact_arrays THEN StartIndentText(indent, ie) ELSE <<>>),
                   "none",
                   /\ newtype_variant' = FALSE
                   /\ is_empty' = ie
                   /\ indent' = (IF ~compact_arrays THEN StartIndentLevel(indent) ELSE indent)
                   /\ sequence_index' = (IF config.some THEN PushIndex(sequence_index)
                                         ELSE sequence_index)
                   /\ stack' = Push(Frame("seq", FALSE, v.kids))
                   /\ cur' = <<>>)

\* the index marker written before an element
IndexMarker(index) == <<"/", "*", "[">> \o FmtNat(index) \o <<"]", "*", "/", " ">>

SerializeSeq_serialize_element ==
    /\ AtFrame("seq") /\ Top.rest # <<>>
    /\ LET sep == IF Top.state = "First" THEN <<>>
                  ELSE <<",">> \o (IF config.some
                                   THEN (IF WithinLimit /\ ~config.compact_arrays
                                         THEN NEW_LINE ELSE SEPARATOR)
                                   ELSE <<>>)
           ind == IF ~compact_arrays THEN IndentText(indent) ELSE <<>>
           enumerating == config.some /\ WithinLimit /\ config.enumerate_arrays
           fault == IF enumerating /\ sequence_index = <<>> THEN "unwrap" ELSE "none"
           marker == IF enumerating /\ sequence_index # <<>>
                     THEN IndexMarker(sequence_index[Len(sequence_index)]) ELSE <<>>
       IN  Handler(sep \o ind \o marker, fault,
                   /\ sequence_index' =
                          (IF enumerating /\ sequence_index # <<>>
                           THEN [sequence_index EXCEPT ![Len(sequence_index)] = @ + 1]
                           ELSE sequence_index)
                   /\ stack' = TakeNext
                   /\ cur' = <<Head(Top.rest)>>
                   /\ UNCHANGED <<is_empty, newtype_variant, indent>>)

SerializeSeq_end ==
    /\ AtFrame("seq") /\ Top.rest = <<>>
    /\ LET trail == IF Top.state = "Rest" /\ config.some /\ WithinLimit
                       /\ ~config.compact_arrays
                    THEN <<",">> \o NEW_LINE ELSE <<>>
           unind == IF ~compact_arrays THEN EndIndentText(indent, is_empty) ELSE <<>>
           fault == IF ~compact_arrays /\ EndIndentUnderflows(indent)
                    THEN "underflow" ELSE "none"
       IN  Handler(trail \o unind \o <<"]">>, fault,
                   /\ indent' = (IF ~compact_arrays THEN EndIndentLevel(indent) ELSE indent)
                   /\ is_empty' = (IF ~compact_arrays THEN EndIndentIsEmpty(is_empty)
                                   ELSE is_empty)
                   /\ sequence_index' =
                          (IF config.some /\ sequence_index # <<>>
                           THEN SubSeq(sequence_index, 1, Len(sequence_index) - 1)
                           ELSE sequence_index)
                   /\ stack' = Pop
                   /\ UNCHANGED <<newtype_variant, cur>>)

(***************************************************************************)
(* Tuples, tuple structs and tuple variants.                               *)
(***************************************************************************)
\* serialize_tuple(len), after the text prefix its caller wrote
TupleOpen(prefix) ==
    LET v == cur[1]
        old_newtype_variant == newtype_variant
        ie == SomeBool(Len(v.kids) = 0)
    IN  Handler(prefix \o (IF ~old_newtype_variant THEN <<"(">> ELSE <<>>)
                \o (IF separate_tuple_members THEN StartIndentText(indent, ie) ELSE <<>>),
                "none",
                /\ newtype_variant' = FALSE
                /\ is_empty' = (IF separate_tuple_members THEN ie ELSE is_empty)
                /\ indent' = (IF separate_tuple_members THEN StartIndentLevel(indent)
                              ELSE indent)
                /\ stack' = Push(Frame("tuple", old_newtype_variant, v.kids))
                /\ cur' = <<>>
                /\ UNCHANGED sequence_index)

serialize_tuple ==
    /\ Expect({"tuple"})
    /\ TupleOpen(<<>>)

serialize_tuple_struct ==
    /\ Expect({"tuple_struct"})
    /\ TupleOpen(IF struct_names /\ ~newtype_variant
                 THEN write_identifier(cur[1].name) ELSE <<>>)

serialize_tuple_variant ==
    /\ Expect({"tuple_variant"})
    /\ LET v == cur[1]
           ie == SomeBool(Len(v.kids) = 0)
       IN  Handler(write_identifier(v.name) \o <<"(">>
                   \o (IF separate_tuple_members THEN StartIndentText(indent, ie) ELSE <<>>),
                   "none",
                   /\ newtype_variant' = FALSE
                   /\ is_empty' = (IF separate_tuple_members THEN ie ELSE is_empty)
                   /\ indent' = (IF separate_tuple_members THEN StartIndentLevel(indent)
                                 ELSE indent)
                   /\ stack' = Push(Frame("tuple", FALSE, v.kids))
                   /\ cur' = <<>>
                   /\ UNCHANGED sequence_index)

\* SerializeTuple::serialize_element; SerializeTupleStruct::serialize_field and
\* SerializeTupleVariant::serialize_field only call it
SerializeTuple_serialize_element ==
    /\ AtFrame("tuple") /\ Top.rest # <<>>
    /\ LET sep == IF Top.state = "First" THEN <<>>
                  ELSE <<",">> \o (IF config.some
                                   THEN (IF WithinLimit /\ separate_tuple_members
                                         THEN NEW_LINE ELSE SEPARATOR)
                                   ELSE <<>>)
           ind == IF separate_tuple_members THEN IndentText(indent) ELSE <<>>
       IN  Handler(sep \o ind, "none",
                   /\ stack' = TakeNext
                   /\ cur' = <<Head(Top.rest)>>
                   /\ UNCHANGED <<is_empty, newtype_variant, indent, sequence_index>>)

\* an end that writes the closing parenthesis whatever the Compound holds
AlwaysClosesParen(compound) == TRUE

\* an end that decides on the serializer's flag as it stands when the
\* Compound is closed, not on the decision the Compound has kept
ClosesParenBySerializerFlag(compound) == ~newtype_variant

\* whether a Compound's end writes the closing parenthesis
ClosesParen(compound) == ~compound.newtype_variant

\* SerializeTuple::end; the tuple struct's and the tuple variant's end only call it
SerializeTuple_end ==
    /\ AtFrame("tuple") /\ Top.rest = <<>>
    /\ LET trail == IF Top.state = "Rest" /\ config.some /\ separate_tuple_members
                       /\ WithinLimit
                    THEN <<",">> \o NEW_LINE ELSE <<>>
           unind == IF separate_tuple_members THEN EndIndentText(indent, is_empty) ELSE <<>>
           fault == IF separate_tuple_members /\ EndIndentUnderflows(indent)
                    THEN "underflow" ELSE "none"
       IN  Handler(trail \o unind \o (IF ClosesParen(Top) THEN <<")">> ELSE <<>>), fault,
                   /\ indent' = (IF separate_tuple_members THEN EndIndentLevel(indent)
                                 ELSE indent)
                   /\ is_empty' = (IF separate_tuple_members THEN EndIndentIsEmpty(is_empty)
                                   ELSE is_empty)
                   /\ stack' = Pop
                   /\ UNCHANGED <<newtype_variant, sequence_index, cur>>)

(***************************************************************************)
(* Maps.                                                                   *)
(***************************************************************************)
\* the separator written before every entry or field but the first
EntrySeparator ==
    IF Top.state = "First" THEN <<>>
    ELSE <<",">> \o (IF config.some
                     THEN (IF WithinLimit THEN NEW_LINE ELSE SEPARATOR)
                     ELSE <<>>)

\* a closing text whose trailing comma does not depend on the pretty state
EntriesEndWithComma ==
    (IF Top.state = "Rest" THEN <<",">> ELSE <<>>)
    \o (IF config.some /\ WithinLimit THEN NEW_LINE ELSE <<>>)
    \o EndIndentText(indent, is_empty)

\* the text written before the closing delimiter of a map or a struct
EntriesEnd ==
    (IF Top.state = "Rest" /\ config.some /\ WithinLimit
     THEN <<",">> \o NEW_LINE ELSE <<>>)
    \o EndIndentText(indent, is_empty)

serialize_map ==
    /\ Expect({"map"})
    /\ LET v == cur[1]
           ie == IF v.num = 1 THEN SomeBool(Len(v.kids) = 0) ELSE is_empty
       IN  Handler(<<"{">> \o StartIndentText(indent, ie), "none",
                   /\ newtype_variant' = FALSE
                   /\ is_empty' = ie
                   /\ indent' = StartIndentLevel(indent)
                   /\ stack' = Push(Frame("map", FALSE, v.kids))
                   /\ cur' = <<>>
                   /\ UNCHANGED sequence_index)

SerializeMap_serialize_key ==
    /\ AtFrame("map") /\ Top.phase = "key" /\ Top.rest # <<>>
    /\ Handler(EntrySeparator \o IndentText(indent), "none",
               /\ stack' = SetTop([Top EXCEPT !.state = "Rest", !.rest = Tail(@),
                                              !.phase = "value"])
               /\ cur' = <<Head(Top.rest)>>
               /\ UNCHANGED <<is_empty, newtype_variant, indent, sequence_index>>)

SerializeMap_serialize_value ==
    /\ AtFrame("map") /\ Top.phase = "value"
    /\ Handler(<<":">> \o (IF config.some THEN SEPARATOR ELSE <<>>), "none",
               /\ stack' = SetTop([Top EXCEPT !.rest = Tail(@), !.phase = "key",
                                              !.taken = @ + 1])
               /\ cur' = <<Head(Top.rest)>>
               /\ UNCHANGED <<is_empty, newtype_variant, indent, sequence_index>>)

SerializeMap_end ==
    /\ AtFrame("map") /\ Top.phase = "key" /\ Top.rest = <<>>
    /\ Handler(EntriesEnd \o <<"}">>,
               IF EndIndentUnderflows(indent) THEN "underflow" ELSE "none",
               /\ indent' = EndIndentLevel(indent)
               /\ is_empty' = EndIndentIsEmpty(is_empty)
               /\ stack' = Pop
               /\ UNCHANGED <<newtype_variant, sequence_index, cur>>)

(***************************************************************************)
(* Structs and struct variants.                                            *)
(***************************************************************************)
serialize_struct ==
    /\ Expect({"struct"})
    /\ LET v == cur[1]
           old_newtype_variant == newtype_variant
           ie == SomeBool(Len(v.kids) = 0)
       IN  Handler((IF ~old_newtype_variant
                    THEN (IF struct_names THEN write_identifier(v.name) ELSE <<>>) \o <<"(">>
                    ELSE <<>>)
                   \o StartIndentText(indent, ie), "none",
                   /\ newtype_variant' = FALSE
                   /\ is_empty' = ie
                   /\ indent' = StartIndentLevel(indent)
                   /\ stack' = Push(Frame("struct", old_newtype_variant, v.kids))
                   /\ cur' = <<>>
                   /\ UNCHANGED sequence_index)

serialize_struct_variant ==
    /\ Expect({"struct_variant"})
    /\ LET v == cur[1]
           ie == SomeBool(Len(v.kids) = 0)
       IN  Handler(write_identifier(v.name) \o <<"(">> \o StartIndentText(indent, ie),
                   "none",
                   /\ newtype_variant' = FALSE
                   /\ is_empty' = ie
                   /\ indent' = StartIndentLevel(indent)
                   /\ stack' = Push(Frame("struct", FALSE, v.kids))
                   /\ cur' = <<>>
                   /\ UNCHANGED sequence_index)

\* SerializeStruct::serialize_field; SerializeStructVariant::serialize_field only
\* calls it.  The key of the i-th field is FieldNames[i].
SerializeStruct_serialize_field ==
    /\ AtFrame("struct") /\ Top.rest # <<>>
    /\ Handler(EntrySeparator \o IndentText(indent)
               \o write_identifier(FieldNames[Top.taken + 1]) \o <<":">>
               \o (IF config.some THEN SEPARATOR ELSE <<>>), "none",
               /\ stack' = TakeNext
               /\ cur' = <<Head(Top.rest)>>
               /\ UNCHANGED <<is_empty, newtype_variant, indent, sequence_index>>)

\* SerializeStruct::end; SerializeStructVariant::end only calls it
SerializeStruct_end ==
    /\ AtFrame("struct") /\ Top.rest = <<>>
    /\ Handler(EntriesEnd \o (IF ClosesParen(Top) THEN <<")">> ELSE <<>>),
               IF EndIndentUnderflows(indent) THEN "underflow" ELSE "none",
               /\ indent' = EndIndentLevel(indent)
               /\ is_empty' = EndIndentIsEmpty(is_empty)
               /\ stack' = Pop
               /\ UNCHANGED <<newtype_variant, sequence_index, cur>>)

(***************************************************************************)
(* to_writer, to_writer_pretty, to_string, to_string_pretty.               *)
(***************************************************************************)
\* value.serialize(&mut s) has returned Ok(())
to_writer_return ==
    /\ result = "running" /\ cur = <<>> /\ stack = <<>>
    /\ result' = "Ok"
    /\ text' = output
    /\ target' = value
    /\ UNCHANGED <<value, config, sink, output, is_empty, newtype_variant, indent,
                   sequence_index, cur, stack, token, decoded, expected, cursor,
                   snapshot, candidate, last, valueVars>>

\* Serializer::with_options: the flag of a new Serializer
with_options_newtype_variant == TRUE

\* Serializer::with_options(writer, config), then value.serialize(&mut s)
with_options(v, c, w) ==
    /\ value = v
    /\ config = c
    /\ sink = w
    /\ output = <<>>
    /\ is_empty = "None"
    /\ newtype_variant = with_options_newtype_variant
    /\ indent = 0
    /\ sequence_index = <<>>
    /\ cur = <<v>>
    /\ stack = <<>>
    /\ result = "running"

(***************************************************************************)
(* The decoder, from_str.  A cursor is [pos, line, col] over the text t;   *)
(* line and col are 1-indexed and col counts characters.  A shape is a     *)
(* value read for its kinds and names only: it stands for the target type. *)
(***************************************************************************)
StartCursor == [pos |-> 1, line |-> 1, col |-> 1]

\* the character under the cursor; "" at the end of the text
At(t, c) == IF c.pos <= Len(t) THEN t[c.pos] ELSE ""

\* a cursor that counts a newline as one more column
AdvanceOnLine(t, c) == [pos |-> c.pos + 1, line |-> c.line, col |-> c.col + 1]

Advance(t, c) ==
    IF At(t, c) = "\n"
    THEN [pos |-> c.pos + 1, line |-> c.line + 1, col |-> 1]
    ELSE [pos |-> c.pos + 1, line |-> c.line, col |-> c.col + 1]

RECURSIVE AdvanceBy(_, _, _)
AdvanceBy(t, c, n) == IF n = 0 THEN c ELSE AdvanceBy(t, Advance(t, c), n - 1)

IsWhitespace(ch) == ch \in {" ", "\t", "\n", "\r"}

RECURSIVE SkipLine(_, _)
\* to the end of a # comment
SkipLine(t, c) ==
    IF At(t, c) = "" \/ At(t, c) = "\n" THEN c ELSE SkipLine(t, Advance(t, c))

RECURSIVE SkipWs(_, _)
\* over whitespace and # comments
SkipWs(t, c) ==
    IF IsWhitespace(At(t, c)) THEN SkipWs(t, Advance(t, c))
    ELSE IF At(t, c) = "#" THEN SkipWs(t, SkipLine(t, c))
         ELSE c

\* the text at the cursor starts with lit
StartsWith(t, c, lit) ==
    /\ c.pos + Len(lit) - 1 <= Len(t)
    /\ SubSeq(t, c.pos, c.pos + Len(lit) - 1) = lit

\* ... and lit is a whole word there
StartsWord(t, c, lit) ==
    /\ StartsWith(t, c, lit)
    /\ ~is_ident_other_char(At(t, AdvanceBy(t, c, Len(lit))))

Dummy == Leaf("unit", 0)

\* what a production returns: a value, or an error code, and the cursor;
\* an error is reported at the line and column of its cursor
Ok(v, c) == [ok |-> TRUE, val |-> v, vals |-> <<>>, cur |-> c, code |-> ""]
OkList(vs, c) == [ok |-> TRUE, val |-> Dummy, vals |-> vs, cur |-> c, code |-> ""]
Err(code, c) == [ok |-> FALSE, val |-> Dummy, vals |-> <<>>, cur |-> c, code |-> code]

DigitValue(ch) == CHOOSE d \in 0..9 : DigitChars[d + 1] = ch

RECURSIVE ReadDigits(_, _, _)
\* digits and underscore separators: the magnitude read and the cursor after it
ReadDigits(t, c, acc) ==
    IF IsDigit(At(t, c)) THEN ReadDigits(t, Advance(t, c), acc * 10 + DigitValue(At(t, c)))
    ELSE IF At(t, c) = "_" THEN ReadDigits(t, Advance(t, c), acc)
         ELSE [n |-> acc, cur |-> c]

IntMin(kind) ==
    CASE kind = "i8" -> -128
      [] kind = "i16" -> -32768
      [] kind \in {"i32", "i64"} -> 0 - USIZE_MAX
      [] OTHER -> 0

IntMax(kind) ==
    CASE kind = "i8" -> 127
      [] kind = "i16" -> 32767
      [] kind = "u8" -> 255
      [] kind = "u16" -> 65535
      [] OTHER -> USIZE_MAX

\* an integer of the requested width, with overflow checking
ParseInt(t, c, kind) ==
    LET signed == kind \in SIntKinds
        sign == IF signed /\ At(t, c) \in {"+", "-"} THEN At(t, c) ELSE ""
        c1 == IF sign = "" THEN c ELSE Advance(t, c)
        r == ReadDigits(t, c1, 0)
        n == IF sign = "-" THEN 0 - r.n ELSE r.n
    IN  IF ~IsDigit(At(t, c1)) THEN Err("ExpectedInteger", c)
        ELSE IF n < IntMin(kind) \/ n > IntMax(kind) THEN Err("IntegerOutOfBounds", c)
             ELSE Ok(Leaf(kind, n), r.cur)

\* a float, in tenths: sign, digits, and optionally a point and digits
ParseFloat(t, c, kind) ==
    LET sign == IF At(t, c) \in {"+", "-"} THEN At(t, c) ELSE ""
        c1 == IF sign = "" THEN c ELSE Advance(t, c)
        whole == ReadDigits(t, c1, 0)
        point == At(t, whole.cur) = "."
        c2 == IF point THEN Advance(t, whole.cur) ELSE whole.cur
        tenth == IF point /\ IsDigit(At(t, c2)) THEN DigitValue(At(t, c2)) ELSE 0
        frac == ReadDigits(t, c2, 0)
        mag == whole.n * 10 + tenth
    IN  IF ~IsDigit(At(t, c1)) THEN Err("ExpectedFloat", c)
        ELSE Ok(Leaf(kind, IF sign = "-" THEN 0 - mag ELSE mag), frac.cur)

\* 64-bit magnitudes are kept as four 16-bit limbs, the most significant
\* first, as in as_u64
Zero64 == <<0, 0, 0, 0>>

\* mag * 10 + d, and whether it left the 64 bits
MulAdd10(mag, d) ==
    LET B == 65536
        l0 == mag[4] * 10 + d
        l1 == mag[3] * 10 + (l0 \div B)
        l2 == mag[2] * 10 + (l1 \div B)
        l3 == mag[1] * 10 + (l2 \div B)
    IN  [mag |-> <<l3 % B, l2 % B, l1 % B, l0 % B>>, over |-> l3 \div B > 0]

RECURSIVE ReadLarge(_, _, _, _)
\* digits and underscore separators read into the widest integer
ReadLarge(t, c, acc, over) ==
    IF IsDigit(At(t, c))
    THEN LET m == MulAdd10(acc, DigitValue(At(t, c)))
         IN  IF m.over THEN ReadLarge(t, Advance(t, c), m.mag, TRUE)
             ELSE ReadLarge(t, Advance(t, c), m.mag, over)
    ELSE IF At(t, c) = "_" THEN ReadLarge(t, Advance(t, c), acc, over)
         ELSE [mag |-> acc, over |-> over, cur |-> c]

\* a <= b on magnitudes
LessEq64(a, b) ==
    \/ a = b
    \/ \E i \in 1..4 : a[i] < b[i] /\ \A j \in 1..(i - 1) : a[j] = b[j]

\* the largest value of an integer type
MaxOf(kind) ==
    CASE kind = "u8" -> <<0, 0, 0, 255>>
      [] kind = "u16" -> <<0, 0, 0, 65535>>
      [] kind = "u32" -> <<0, 0, 65535, 65535>>
      [] kind = "u64" -> <<65535, 65535, 65535, 65535>>
      [] kind = "i8" -> <<0, 0, 0, 127>>
      [] kind = "i16" -> <<0, 0, 0, 32767>>
      [] kind = "i32" -> <<0, 0, 32767, 65535>>
      [] kind = "i64" -> <<32767, 65535, 65535, 65535>>

\* the magnitude of the smallest value of a signed integer type
MinOf(kind) ==
    CASE kind = "i8" -> <<0, 0, 0, 128>>
      [] kind = "i16" -> <<0, 0, 0, 32768>>
      [] kind = "i32" -> <<0, 0, 32768, 0>>
      [] kind = "i64" -> <<32768, 0, 0, 0>>

\* a literal is read as signed when any sign is written, '+' included
SignedIfNegative(sign) == sign = "-"

IsSigned(sign) == sign # ""

\* a float in tenths survives the cast to 32 bits and back: it is a multiple
\* of a half within the 24-bit mantissa
FitsF32(tenths) == tenths % 5 = 0 /\ Abs(tenths) <= 83886080

AnyNum(kind, neg, mag) == [kind |-> kind, neg |-> neg, mag |-> mag]

\* the dynamic number reader: the narrowest type the literal fits
any_num(t, c) ==
    LET sign == IF At(t, c) \in {"+", "-"} THEN At(t, c) ELSE ""
        c1 == IF sign = "" THEN c ELSE Advance(t, c)
        r == ReadLarge(t, c1, Zero64, FALSE)
        neg == sign = "-" /\ r.mag # Zero64
        Holds(kind) == IF neg THEN LessEq64(r.mag, MinOf(kind))
                       ELSE LessEq64(r.mag, MaxOf(kind))
        Narrowest(kinds) == IF \E i \in 1..4 : Holds(kinds[i])
                            THEN kinds[CHOOSE i \in 1..4 :
                                         Holds(kinds[i]) /\ \A j \in 1..(i - 1) : ~Holds(kinds[j])]
                            ELSE ""
        kind == IF IsSigned(sign) THEN Narrowest(<<"i8", "i16", "i32", "i64">>)
                ELSE Narrowest(<<"u8", "u16", "u32", "u64">>)
        f == ParseFloat(t, c, "f64")
    IN  IF ~IsDigit(At(t, c1)) THEN Err("ExpectedInteger", c)
        ELSE IF At(t, r.cur) = "."
             THEN [f EXCEPT !.val = Leaf(IF FitsF32(f.val.num) THEN "f32" ELSE "f64", f.val.num)]
             ELSE IF r.over \/ kind = "" THEN Err("IntegerOutOfBounds", c)
                  ELSE [ok |-> TRUE, val |-> AnyNum(kind, neg, r.mag), vals |-> <<>>,
                        cur |-> r.cur, code |-> ""]

ParseBool(t, c) ==
    IF StartsWord(t, c, <<"t", "r", "u", "e">>)
    THEN Ok(Leaf("bool", 1), AdvanceBy(t, c, 4))
    ELSE IF StartsWord(t, c, <<"f", "a", "l", "s", "e">>)
         THEN Ok(Leaf("bool", 0), AdvanceBy(t, c, 5))
         ELSE Err("ExpectedBoolean", c)

\* the character an escape letter stands for; "" when it stands for none
Unescape(ch) ==
    CASE ch = "n" -> "\n"
      [] ch = "t" -> "\t"
      [] ch = "r" -> "\r"
      [] ch \in {"'", "\"", "\\"} -> ch
      [] OTHER -> ""

CharIndex(ch) ==
    IF \E i \in 1..Len(Chars) : Chars[i] = ch
    THEN CHOOSE i \in 1..Len(Chars) : Chars[i] = ch
    ELSE 0

\* 'c', with \ escapes
ParseChar(t, c) ==
    LET c1 == Advance(t, c)
        escaped == At(t, c1) = "\\"
        c2 == IF escaped THEN Advance(t, c1) ELSE c1
        ch == IF escaped THEN Unescape(At(t, c2)) ELSE At(t, c2)
        c3 == Advance(t, c2)
    IN  IF At(t, c) # "'" \/ ch = "" \/ At(t, c3) # "'" THEN Err("ExpectedChar", c)
        ELSE Ok(Leaf("char", CharIndex(ch)), Advance(t, c3))

RECURSIVE ReadQuoted(_, _, _, _)
\* the characters of a quoted string up to its closing quote; open is the
\* cursor of the opening quote
ReadQuoted(t, c, acc, open) ==
    IF At(t, c) = "" THEN Err("ExpectedStringEnd", open)
    ELSE IF At(t, c) = "\"" THEN Ok(Mk("str", <<>>, 0, acc, <<>>), Advance(t, c))
    ELSE IF At(t, c) = "\\"
         THEN LET ch == Unescape(At(t, Advance(t, c)))
              IN  IF ch = "" THEN Err("InvalidEscape", c)
                  ELSE ReadQuoted(t, AdvanceBy(t, c, 2), Append(acc, ch), open)
         ELSE ReadQuoted(t, Advance(t, c), Append(acc, At(t, c)), open)

RECURSIVE ReadWord(_, _, _)
\* a run of identifier characters
ReadWord(t, c, acc) ==
    IF is_ident_other_char(At(t, c)) THEN ReadWord(t, Advance(t, c), Append(acc, At(t, c)))
    ELSE [word |-> acc, cur |-> c]

\* a quoted string, or a bare word
ParseString(t, c) ==
    IF At(t, c) = "\"" THEN ReadQuoted(t, Advance(t, c), <<>>, c)
    ELSE IF is_ident_first_char(At(t, c))
         THEN LET w == ReadWord(t, c, <<>>)
              IN  Ok(Mk("str", <<>>, 0, w.word, <<>>), w.cur)
         ELSE Err("ExpectedString", c)

RECURSIVE ReadRaw(_, _, _)
\* the characters of a raw identifier, after r#
ReadRaw(t, c, acc) ==
    IF is_ident_other_char(At(t, c)) \/ At(t, c) = "-"
    THEN ReadRaw(t, Advance(t, c), Append(acc, At(t, c)))
    ELSE [word |-> acc, cur |-> c]

\* an identifier: a bare word, or r# and any identifier characters
ReadIdentifier(t, c) ==
    IF StartsWith(t, c, <<"r", "#">>) THEN ReadRaw(t, AdvanceBy(t, c, 2), <<>>)
    ELSE IF is_ident_first_char(At(t, c)) THEN ReadWord(t, c, <<>>)
         ELSE [word |-> <<>>, cur |-> c]

Missing == Leaf("missing", 0)

\* the shape of the i-th element, entry or field of a composite shape
ShapeAt(shapes, i) ==
    IF shapes = <<>> THEN Dummy
    ELSE IF i <= Len(shapes) THEN shapes[i] ELSE shapes[Len(shapes)]

\* the index of the field called key among the first n field names; 0 if none
FieldIndex(key, n) ==
    IF \E j \in 1..n : FieldNames[j] = key
    THEN CHOOSE j \in 1..n : FieldNames[j] = key
    ELSE 0

\* an optional type or variant name before a delimiter: the cursor after it,
\* or the name-mismatch error at the name
ParseName(t, c, name) ==
    LET w == ReadIdentifier(t, c)
    IN  IF w.word = <<>> THEN Ok(Dummy, c)
        ELSE IF w.word # name THEN Err("ExpectedStructName", c)
             ELSE Ok(Dummy, SkipWs(t, w.cur))

\* a repeated key whose value replaces the one given before
OverwriteField(old, new) == new

\* the value of a field after one more occurrence of its key: a sequence is
\* appended to the sequence given before, any other value replaces it
MergeField(old, new) ==
    IF old # Missing /\ old.kind = "seq" /\ new.kind = "seq"
    THEN [new EXCEPT !.kids = old.kids \o new.kids]
    ELSE new

\* an entry reader that knows the colon form only
ColonMark(bracketed) == ":"

\* what stands between the key and the value of an entry: `key: value`, or
\* the bracketed-key form `<key> value`
EntryMark(bracketed) == IF bracketed THEN ">" ELSE ":"

RECURSIVE ParseValue(_, _, _), ParseElems(_, _, _, _, _, _), ParseFields(_, _, _, _),
          ParseEntries(_, _, _, _)

\* v, v, ... up to the closing delimiter; a trailing comma is permitted;
\* fixed: the shape has exactly Len(shapes) elements
ParseElems(t, c0, shapes, close, acc, fixed) ==
    LET c == SkipWs(t, c0)
    IN  IF At(t, c) = close
        THEN IF fixed /\ Len(acc) < Len(shapes) THEN Err("ExpectedArrayEnd", c)
             ELSE OkList(acc, Advance(t, c))
        ELSE IF fixed /\ Len(acc) >= Len(shapes) THEN Err("ExpectedArrayEnd", c)
        ELSE LET r == ParseValue(t, c, ShapeAt(shapes, Len(acc) + 1))
                 c2 == SkipWs(t, r.cur)
             IN  IF ~r.ok THEN r
                 ELSE IF At(t, c2) = ","
                      THEN ParseElems(t, Advance(t, c2), shapes, close,
                                      Append(acc, r.val), fixed)
                      ELSE IF At(t, c2) = close
                           THEN ParseElems(t, c2, shapes, close, Append(acc, r.val), fixed)
                           ELSE Err("ExpectedComma", c2)

\* key: value or <key> value, separated by , or ; up to the closing brace;
\* acc holds the value of each field of the shape, a repeated key merged
\* into it by MergeField
ParseFields(t, c0, shapes, acc) ==
    LET c == SkipWs(t, c0)
        bracketed == At(t, c) = "<"
        ck == IF bracketed THEN SkipWs(t, Advance(t, c)) ELSE c
        w == ReadIdentifier(t, ck)
        cs == SkipWs(t, w.cur)
        j == FieldIndex(w.word, Len(shapes))
        r == ParseValue(t, Advance(t, cs), shapes[j])
        c2 == SkipWs(t, r.cur)
    IN  IF At(t, c) = "}"
        THEN IF \E i \in 1..Len(acc) : acc[i] = Missing THEN Err("MissingStructField", c)
             ELSE OkList(acc, Advance(t, c))
        ELSE IF w.word = <<>> THEN Err("ExpectedIdentifier", ck)
        ELSE IF j = 0 THEN Err("NoSuchStructField", ck)
        ELSE IF At(t, cs) # EntryMark(bracketed) THEN Err("ExpectedMapColon", cs)
        ELSE IF ~r.ok THEN r
        ELSE IF At(t, c2) \in {",", ";"}
             THEN ParseFields(t, Advance(t, c2), shapes,
                              [acc EXCEPT ![j] = MergeField(@, r.val)])
             ELSE IF At(t, c2) = "}"
                  THEN ParseFields(t, c2, shapes, [acc EXCEPT ![j] = MergeField(@, r.val)])
                  ELSE Err("ExpectedComma", c2)

\* the entries of a map, as key1, value1, key2, value2, ...
ParseEntries(t, c0, shapes, acc) ==
    LET c == SkipWs(t, c0)
        bracketed == At(t, c) = "<"
        ck == IF bracketed THEN Advance(t, c) ELSE c
        k == ParseValue(t, ck, ShapeAt(shapes, Len(acc) + 1))
        cs == SkipWs(t, k.cur)
        r == ParseValue(t, Advance(t, cs), ShapeAt(shapes, Len(acc) + 2))
        c2 == SkipWs(t, r.cur)
        more == acc \o <<k.val, r.val>>
    IN  IF At(t, c) = "}" THEN OkList(acc, Advance(t, c))
        ELSE IF ~k.ok THEN k
        ELSE IF At(t, cs) # EntryMark(bracketed) THEN Err("ExpectedMapColon", cs)
        ELSE IF ~r.ok THEN r
        ELSE IF At(t, c2) \in {",", ";"} THEN ParseEntries(t, Advance(t, c2), shapes, more)
             ELSE IF At(t, c2) = "}" THEN ParseEntries(t, c2, shapes, more)
                  ELSE Err("ExpectedMapEnd", c2)

\* ( value ), the body of a newtype struct or newtype variant
ParseNewtype(t, c, sh) ==
    LET r == ParseValue(t, Advance(t, c), sh.kids[1])
        c1 == SkipWs(t, r.cur)
        c2 == IF At(t, c1) = "," THEN SkipWs(t, Advance(t, c1)) ELSE c1
    IN  IF At(t, c) # "(" THEN Err("ExpectedStructLike", c)
        ELSE IF ~r.ok THEN r
        ELSE IF At(t, c2) # ")" THEN Err("ExpectedStructLikeEnd", c2)
             ELSE Ok([sh EXCEPT !.kids = <<r.val>>], Advance(t, c2))

\* ( v, v, ... ), the body of a tuple, tuple struct or tuple variant
ParseTuple(t, c, sh) ==
    LET r == ParseElems(t, Advance(t, c), sh.kids, ")", <<>>, TRUE)
    IN  IF At(t, c) # "(" THEN Err("ExpectedArray", c)
        ELSE IF ~r.ok THEN r
             ELSE Ok([sh EXCEPT !.kids = r.vals], r.cur)

\* { field: value, ... }, the body of a struct or struct variant
ParseBody(t, c, sh) ==
    LET r == ParseFields(t, Advance(t, c), sh.kids, [i \in 1..Len(sh.kids) |-> Missing])
    IN  IF ~r.ok THEN r ELSE Ok([sh EXCEPT !.kids = r.vals], r.cur)

\* {} or Name{} or Name
ParseUnitStruct(t, c, sh) ==
    LET n == ParseName(t, c, sh.name)
        named == n.ok /\ n.cur # c
        c1 == SkipWs(t, Advance(t, n.cur))
    IN  IF ~n.ok THEN n
        ELSE IF At(t, n.cur) = "{" /\ At(t, c1) = "}" THEN Ok(sh, Advance(t, c1))
        ELSE IF named THEN Ok(sh, ReadIdentifier(t, c).cur)
             ELSE Err(IF sh.kind = "unit" THEN "ExpectedUnit" ELSE "ExpectedNamedStruct", c)

\* the variant identifier of an enum, then the variant's body
ParseEnum(t, c, sh) ==
    LET w == ReadIdentifier(t, c)
        c1 == SkipWs(t, w.cur)
    IN  IF w.word = <<>> THEN Err("ExpectedIdentifier", c)
        ELSE IF w.word # sh.name THEN Err("NoSuchEnumVariant", c)
        ELSE CASE sh.kind = "unit_variant" -> Ok(sh, w.cur)
               [] sh.kind = "newtype_variant" -> ParseNewtype(t, c1, sh)
               [] sh.kind = "tuple_variant" -> ParseTuple(t, c1, sh)
               [] OTHER ->
                    IF At(t, c1) # "{" THEN Err("ExpectedStructLike", c1)
                    ELSE ParseBody(t, c1, sh)

\* the production of the shape sh, at the next significant token
ParseValue(t, c0, sh) ==
    LET c == SkipWs(t, c0)
        k == sh.kind
    IN  CASE k = "bool" -> ParseBool(t, c)
          [] k \in SIntKinds \cup UIntKinds -> ParseInt(t, c, k)
          [] k \in FloatKinds -> ParseFloat(t, c, k)
          [] k = "char" -> ParseChar(t, c)
          [] k = "str" -> ParseString(t, c)
          [] k \in {"none", "some"} ->
                IF StartsWord(t, c, <<"N", "o", "n", "e">>)
                THEN Ok(Leaf("none", 0), AdvanceBy(t, c, 4))
                ELSE LET r == ParseValue(t, c, ShapeAt(sh.kids, 1))
                     IN  IF ~r.ok THEN r
                         ELSE Ok(Mk("some", NameOf("some"), 0, <<>>, <<r.val>>), r.cur)
          [] k \in {"unit", "unit_struct"} -> ParseUnitStruct(t, c, sh)
          [] k = "newtype_struct" ->
                LET n == ParseName(t, c, sh.name)
                IN  IF ~n.ok THEN n ELSE ParseNewtype(t, n.cur, sh)
          [] k = "tuple" -> ParseTuple(t, c, sh)
          [] k = "tuple_struct" ->
                LET n == ParseName(t, c, sh.name)
                IN  IF ~n.ok THEN n ELSE ParseTuple(t, n.cur, sh)
          [] k = "seq" ->
                LET r == ParseElems(t, Advance(t, c), sh.kids, "]", <<>>, FALSE)
                IN  IF At(t, c) # "[" THEN Err("ExpectedArray", c)
                    ELSE IF ~r.ok THEN r
                         ELSE Ok([sh EXCEPT !.kids = r.vals], r.cur)
          [] k = "map" ->
                LET r == ParseEntries(t, Advance(t, c), sh.kids, <<>>)
                IN  IF At(t, c) # "{" THEN Err("ExpectedMap", c)
                    ELSE IF ~r.ok THEN r
                         ELSE Ok([sh EXCEPT !.kids = r.vals], r.cur)
          [] k = "struct" ->
                LET n == ParseName(t, c, sh.name)
                IN  IF ~n.ok THEN n
                    ELSE IF At(t, n.cur) # "{"
                         THEN Err("ExpectedNamedStruct", n.cur)
                         ELSE ParseBody(t, n.cur, sh)
          [] OTHER -> ParseEnum(t, c, sh)

\* from_str: one value of the shape, then only whitespace and comments
from_str(t, sh) ==
    LET r == ParseValue(t, StartCursor, sh)
        c == SkipWs(t, r.cur)
    IN  IF r.ok /\ At(t, c) # "" THEN Err("TrailingCharacters", c) ELSE r

(***************************************************************************)
(* An untagged enum: the shape [kind "untagged", kids the candidate shapes *)
(* in declaration order].  The decoder saves the cursor, attempts the      *)
(* candidates one after the other and restores the cursor after a failed   *)
(* attempt.  The value decoded is the variant: num is the index of the     *)
(* candidate that matched, kids its value.                                 *)
(***************************************************************************)
\* a failed attempt that leaves the cursor where the production stopped
KeepCursor(snap, c) == c

\* restore snapshot on failure
Restore(snap, c) == snap

\* the cursor is saved at the first significant token
untagged_begin ==
    /\ target.kind = "untagged"
    /\ decoded = <<>>
    /\ candidate = 0
    /\ cursor' = SkipWs(text, StartCursor)
    /\ snapshot' = SkipWs(text, StartCursor)
    /\ candidate' = 1
    /\ last' = <<>>
    /\ UNCHANGED <<serVars, text, target, token, decoded, expected, valueVars>>

\* one attempt: the full production of the candidate, from the cursor; the
\* first match is the result, with only whitespace and comments after it
untagged_attempt ==
    /\ decoded = <<>>
    /\ candidate \in 1..Len(target.kids)
    /\ \E r \in {ParseValue(text, cursor, target.kids[candidate])} :
       LET end == SkipWs(text, r.cur)
       IN  /\ last' = <<r>>
           /\ IF r.ok
              THEN /\ cursor' = end
                   /\ candidate' = 0
                   /\ decoded' =
                        <<IF At(text, end) # "" THEN Err("TrailingCharacters", end)
                          ELSE Ok(Mk("untagged", <<>>, candidate, <<>>, <<r.val>>), end)>>
              ELSE /\ cursor' = Restore(snapshot, r.cur)
                   /\ candidate' = candidate + 1
                   /\ UNCHANGED decoded
    /\ UNCHANGED <<serVars, text, target, token, expected, snapshot, valueVars>>

\* no candidate matched: the error of the last attempt is returned
untagged_end ==
    /\ decoded = <<>>
    /\ candidate = Len(target.kids) + 1
    /\ decoded' = last
    /\ candidate' = 0
    /\ UNCHANGED <<serVars, text, target, token, expected, cursor, snapshot, last,
                   valueVars>>

(***************************************************************************)
(* value.rs: Map, over a BTreeMap (the default MapInner).  A Map is the    *)
(* sequence of its entries <<key, value>> in iteration order, which is     *)
(* the order of the keys.                                                  *)
(***************************************************************************)
MapKeyValues == 0..MaxKey
MapValues == 0..1

RECURSIVE insert(_, _, _)
\* Map::insert
insert(m, k, v) ==
    IF m = <<>> THEN <<<<k, v>>>>
    ELSE IF Head(m)[1] = k THEN <<<<k, v>>>> \o Tail(m)
    ELSE IF Head(m)[1] > k THEN <<<<k, v>>>> \o m
    ELSE <<Head(m)>> \o insert(Tail(m), k, v)

\* Map::remove
remove(m, k) == SelectSeq(m, LAMBDA e : e[1] # k)

\* #[derive(PartialEq)] on the entries would give this
derived_eq(a, b) == a = b

RECURSIVE eq(_, _)
\* PartialEq for Map: self.iter().zip(other.iter()).all(|(a, b)| a == b)
eq(a, b) ==
    IF a = <<>> \/ b = <<>> THEN TRUE
    ELSE Head(a) = Head(b) /\ eq(Tail(a), Tail(b))

Map_insert ==
    /\ \E side \in {"lhs", "rhs"}, k \in MapKeyValues, v \in MapValues :
          /\ lhs' = (IF side = "lhs" THEN insert(lhs, k, v) ELSE lhs)
          /\ rhs' = (IF side = "rhs" THEN insert(rhs, k, v) ELSE rhs)
    /\ equal' = <<>>
    /\ UNCHANGED <<serVars, deVars, dyn, request, visited, accessVars>>

Map_remove ==
    /\ \E side \in {"lhs", "rhs"}, k \in MapKeyValues :
          /\ lhs' = (IF side = "lhs" THEN remove(lhs, k) ELSE lhs)
          /\ rhs' = (IF side = "rhs" THEN remove(rhs, k) ELSE rhs)
    /\ equal' = <<>>
    /\ UNCHANGED <<serVars, deVars, dyn, request, visited, accessVars>>

\* lhs == rhs
Map_eq ==
    /\ equal = <<>>
    /\ equal' = <<eq(lhs, rhs)>>
    /\ UNCHANGED <<serVars, deVars, lhs, rhs, dyn, request, visited, accessVars>>

(***************************************************************************)
(* value.rs: impl Deserializer for Value (262-338).  A Value is            *)
(* [tag, num]; the visitor call made is [call, arg], where a u64 argument  *)
(* is its four 16-bit limbs, most significant first.                       *)
(***************************************************************************)
IntegerSamples == {0 - USIZE_MAX, -65536, -256, -1, 0, 1, 255, 65535, 65536, USIZE_MAX}

Values ==
    {[tag |-> "Integer", num |-> i] : i \in IntegerSamples}
    \cup {[tag |-> "Float", num |-> t] : t \in {-15, 35}}
    \cup {[tag |-> "Bool", num |-> b] : b \in {0, 1}}
    \cup {[tag |-> "Char", num |-> 1], [tag |-> "Unit", num |-> 0],
          [tag |-> "None", num |-> 0]}

\* i as u64, for an i64 i
as_u64(i) ==
    LET Limb == 65536
        m == (0 - i) - 1
    IN  IF i >= 0 THEN <<0, 0, i \div Limb, i % Limb>>
        ELSE <<Limb - 1, Limb - 1, (Limb - 1) - (m \div Limb), (Limb - 1) - (m % Limb)>>

\* ZmeraldError::custom(format!("Expected a number, got {:?}", v))
ExpectedANumber == [call |-> "Err(Expected a number)", arg |-> <<>>]

deserialize_any(v) ==
    CASE v.tag = "Bool" -> [call |-> "visit_bool", arg |-> <<v.num>>]
      [] v.tag = "Char" -> [call |-> "visit_char", arg |-> <<v.num>>]
      [] v.tag = "Float" -> [call |-> "visit_f64", arg |-> <<v.num>>]
      [] v.tag = "Integer" -> [call |-> "visit_i64", arg |-> <<v.num>>]
      [] v.tag = "None" -> [call |-> "visit_none", arg |-> <<>>]
      [] OTHER -> [call |-> "visit_unit", arg |-> <<>>]

deserialize_i64(v) ==
    IF v.tag = "Integer" THEN [call |-> "visit_i64", arg |-> <<v.num>>]
    ELSE ExpectedANumber

deserialize_i8(v) == deserialize_i64(v)
deserialize_i16(v) == deserialize_i64(v)
deserialize_i32(v) == deserialize_i64(v)

deserialize_u64(v) ==
    IF v.tag = "Integer" THEN [call |-> "visit_u64", arg |-> as_u64(v.num)]
    ELSE ExpectedANumber

deserialize_u8(v) == deserialize_u64(v)
deserialize_u16(v) == deserialize_u64(v)
deserialize_u32(v) == deserialize_u64(v)

SignedMethods == {"deserialize_i8", "deserialize_i16", "deserialize_i32", "deserialize_i64"}
UnsignedMethods == {"deserialize_u8", "deserialize_u16", "deserialize_u32", "deserialize_u64"}

\* the method a decode into the requested shape calls on the Value
Dispatch(method, v) ==
    CASE method = "deserialize_i8" -> deserialize_i8(v)
      [] method = "deserialize_i16" -> deserialize_i16(v)
      [] method = "deserialize_i32" -> deserialize_i32(v)
      [] method = "deserialize_i64" -> deserialize_i64(v)
      [] method = "deserialize_u8" -> deserialize_u8(v)
      [] method = "deserialize_u16" -> deserialize_u16(v)
      [] method = "deserialize_u32" -> deserialize_u32(v)
      [] method = "deserialize_u64" -> deserialize_u64(v)
      [] OTHER -> deserialize_any(v)

\* value.into_rust::<T>() for a signed, an unsigned or another T
into_rust(methods) ==
    /\ request = ""
    /\ \E method \in methods :
          /\ request' = method
          /\ visited' = <<Dispatch(method, dyn)>>
    /\ UNCHANGED <<serVars, deVars, lhs, rhs, equal, dyn, accessVars>>

\* a Vec whose elements are taken from the front
kept(v) == v

\* .rev().collect() / Vec::reverse
rev(v) == [i \in 1..Len(v) |-> v[Len(v) + 1 - i]]

\* Map::keys and Map::values: in iteration order
Map_keys(m) == [i \in 1..Len(m) |-> m[i][1]]
Map_values(m) == [i \in 1..Len(m) |-> m[i][2]]

\* Vec::pop: the last element, if any, and the Vec without it
pop(v) == IF v = <<>> THEN [some |-> FALSE, item |-> 0, rest |-> v]
          ELSE [some |-> TRUE, item |-> v[Len(v)], rest |-> SubSeq(v, 1, Len(v) - 1)]

\* deserialize_any on Value::Map: visitor.visit_map(MapAccessor { keys, values })
deserialize_any_map ==
    /\ request = "" /\ dyn.tag = "Map"
    /\ request' = "deserialize_any"
    /\ visited' = <<[call |-> "visit_map", arg |-> <<>>]>>
    /\ keys' = rev(Map_keys(dyn.items))
    /\ values' = rev(Map_values(dyn.items))
    /\ UNCHANGED <<serVars, deVars, lhs, rhs, equal, dyn, seq, seen>>

\* deserialize_any on Value::Seq: seq.reverse(); visitor.visit_seq(Seq { seq })
deserialize_any_seq ==
    /\ request = "" /\ dyn.tag = "Seq"
    /\ request' = "deserialize_any"
    /\ visited' = <<[call |-> "visit_seq", arg |-> <<>>]>>
    /\ seq' = rev(dyn.items)
    /\ UNCHANGED <<serVars, deVars, lhs, rhs, equal, dyn, keys, values, seen>>

\* what a next_*_seed call returns to the visitor
Returned(call, p) ==
    IF p.some THEN [call |-> call, arg |-> <<p.item>>] ELSE [call |-> "None", arg |-> <<>>]

\* the visitor has been told the end
Ended == seen # <<>> /\ seen[Len(seen)].call = "None"

\* MapAccess::next_key_seed, called first and after every value
MapAccessor_next_key_seed ==
    /\ visited = <<[call |-> "visit_map", arg |-> <<>>]>> /\ ~Ended
    /\ IF seen = <<>> THEN TRUE ELSE seen[Len(seen)].call = "value"
    /\ seen' = Append(seen, Returned("key", pop(keys)))
    /\ keys' = pop(keys).rest
    /\ UNCHANGED <<serVars, deVars, lhs, rhs, equal, dyn, request, visited, values, seq>>

\* MapAccess::next_value_seed, called after a key; with no value left the
\* expect("Contract violation") panics
MapAccessor_next_value_seed ==
    /\ visited = <<[call |-> "visit_map", arg |-> <<>>]>>
    /\ seen # <<>> /\ seen[Len(seen)].call = "key"
    /\ seen' = Append(seen, IF pop(values).some THEN Returned("value", pop(values))
                            ELSE [call |-> "panic", arg |-> <<>>])
    /\ values' = pop(values).rest
    /\ UNCHANGED <<serVars, deVars, lhs, rhs, equal, dyn, request, visited, keys, seq>>

\* SeqAccess::next_element_seed
Seq_next_element_seed ==
    /\ visited = <<[call |-> "visit_seq", arg |-> <<>>]>> /\ ~Ended
    /\ seen' = Append(seen, Returned("element", pop(seq)))
    /\ seq' = pop(seq).rest
    /\ UNCHANGED <<serVars, deVars, lhs, rhs, equal, dyn, request, visited, keys, values>>

into_rust_signed == into_rust(SignedMethods)
into_rust_unsigned == into_rust(UnsignedMethods)
into_rust_other == into_rust({"deserialize_any"})

(***************************************************************************)
(* The specifications.                                                     *)
(***************************************************************************)
IdleSerializer ==
    /\ value = Dummy
    /\ config = NoConfig
    /\ sink = "vec"
    /\ output = <<>>
    /\ is_empty = "None"
    /\ newtype_variant = FALSE
    /\ indent = 0
    /\ sequence_index = <<>>
    /\ cur = <<>>
    /\ stack = <<>>
    /\ result = "idle"

\* no untagged enum is being decoded
IdleUntagged ==
    /\ cursor = StartCursor
    /\ snapshot = StartCursor
    /\ candidate = 0
    /\ last = <<>>

IdleDecoder ==
    /\ text = <<>>
    /\ target = Dummy
    /\ token = 0
    /\ decoded = <<>>
    /\ expected = Dummy
    /\ IdleUntagged

IdleAccess == keys = <<>> /\ values = <<>> /\ seq = <<>> /\ seen = <<>>

IdleValue ==
    /\ lhs = <<>>
    /\ rhs = <<>>
    /\ equal = <<>>
    /\ dyn = [tag |-> "Unit", num |-> 0]
    /\ request = ""
    /\ visited = <<>>
    /\ IdleAccess

\* from_str(text) into the target shape: of a text on its own, or of the
\* text a serialization returned, into the type of the value serialized
from_str_call ==
    /\ result \in {"Ok", "idle"}
    /\ decoded = <<>>
    /\ target.kind # "untagged"
    /\ decoded' = <<from_str(text, target)>>
    /\ UNCHANGED <<serVars, text, target, token, expected, cursor, snapshot, candidate,
                   last, valueVars>>

RECURSIVE KindsOf(_)
\* the kinds of v and of the values inside it
KindsOf(v) == {v.kind} \cup UNION {KindsOf(v.kids[i]) : i \in 1..Len(v.kids)}

\* c sets a flag only where v has a value the serializer reads the flag for:
\* the array flags for a sequence, separate_tuple_members for a tuple kind,
\* struct_names for a named struct kind
ReadsFlags(v, c) ==
    LET kinds == KindsOf(v)
    IN  /\ (c.enumerate_arrays \/ c.compact_arrays) => "seq" \in kinds
        /\ c.separate_tuple_members => kinds \cap TupleKinds # {}
        /\ c.struct_names =>
               kinds \cap {"unit_struct", "newtype_struct", "tuple_struct", "struct"} # {}

\* the values and configurations the serializer is run on
Inputs ==
    (PrimValues \X ({NoConfig} \cup LeafConfigs))
    \cup (TreesUpTo(MaxNodes, CompLeaves \cup MoreLeaves) \X {NoConfig})
    \cup {in \in TreesUpTo(MaxNodesPretty, CompLeaves) \X PrettyConfigs :
             ReadsFlags(in[1], in[2])}

\* to_string / to_string_pretty: the sink is a Vec<u8>
Init ==
    /\ \E in \in Inputs : with_options(in[1], in[2], "vec")
    /\ IdleDecoder
    /\ IdleValue

Next ==
    \/ serialize_bool
    \/ serialize_sint
    \/ serialize_uint
    \/ serialize_float
    \/ serialize_char
    \/ serialize_str
    \/ serialize_none
    \/ serialize_some
    \/ serialize_unit
    \/ serialize_unit_struct
    \/ serialize_unit_variant
    \/ serialize_newtype_struct
    \/ serialize_newtype_struct_return
    \/ serialize_newtype_variant
    \/ serialize_newtype_variant_return
    \/ serialize_seq
    \/ SerializeSeq_serialize_element
    \/ SerializeSeq_end
    \/ serialize_tuple
    \/ serialize_tuple_struct
    \/ serialize_tuple_variant
    \/ SerializeTuple_serialize_element
    \/ SerializeTuple_end
    \/ serialize_map
    \/ SerializeMap_serialize_key
    \/ SerializeMap_serialize_value
    \/ SerializeMap_end
    \/ serialize_struct
    \/ serialize_struct_variant
    \/ SerializeStruct_serialize_field
    \/ SerializeStruct_end
    \/ to_writer_return
    \/ from_str_call

Spec == Init /\ [][Next]_vars


(***************************************************************************)
(* to_writer and to_writer_pretty into a sink whose writes may fail.       *)
(***************************************************************************)
WriterInputs ==
    (PrimValues \X ({NoConfig} \cup LeafConfigs))
    \cup (TreesUpTo(MaxNodesWriter, CompLeaves) \X ({NoConfig} \cup PrettyConfigs))

InitWriter ==
    /\ \E in \in WriterInputs, w \in {"vec", "faulty"} : with_options(in[1], in[2], w)
    /\ IdleDecoder
    /\ IdleValue

SpecWriter == InitWriter /\ [][Next]_vars

(***************************************************************************)
(* Sequences inside sequences and tuples, printed with enumerate_arrays.   *)
(***************************************************************************)
MaxNodesEnumerated == 4

EnumeratingConfigs == {c \in PrettyConfigs : c.enumerate_arrays /\ ~c.struct_names}

InitEnumerate ==
    /\ \E v \in NestedUpTo(MaxNodesEnumerated, {"seq", "tuple"}, {Leaf("bool", 1)}),
          c \in EnumeratingConfigs : with_options(v, c, "vec")
    /\ IdleDecoder
    /\ IdleValue

NextEnumerate ==
    \/ serialize_bool
    \/ serialize_seq
    \/ SerializeSeq_serialize_element
    \/ SerializeSeq_end
    \/ serialize_tuple
    \/ SerializeTuple_serialize_element
    \/ SerializeTuple_end
    \/ to_writer_return

SpecEnumerate == InitEnumerate /\ [][NextEnumerate]_vars

(***************************************************************************)
(* Structs, maps, sequences and tuples nested up to four deep, printed     *)
(* with a depth limit of 0, 1 or 2.                                        *)
(***************************************************************************)
MaxNodesDeep == 4
MaxDeepLimit == 2

DeepConfigs ==
    {c \in [some : {TRUE}, depth_limit : 0..MaxDeepLimit, struct_names : {FALSE},
            separate_tuple_members : BOOLEAN, enumerate_arrays : {FALSE},
            decimal_floats : {FALSE}, compact_arrays : BOOLEAN] : TRUE}

InitDeep ==
    /\ \E v \in NestedUpTo(MaxNodesDeep, {"struct", "map", "seq", "tuple"}, {Leaf("bool", 1)}),
          c \in DeepConfigs : with_options(v, c, "vec")
    /\ IdleDecoder
    /\ IdleValue

NextDeep ==
    \/ serialize_bool
    \/ serialize_seq
    \/ SerializeSeq_serialize_element
    \/ SerializeSeq_end
    \/ serialize_tuple
    \/ SerializeTuple_serialize_element
    \/ SerializeTuple_end
    \/ serialize_map
    \/ SerializeMap_serialize_key
    \/ SerializeMap_serialize_value
    \/ SerializeMap_end
    \/ serialize_struct
    \/ SerializeStruct_serialize_field
    \/ SerializeStruct_end
    \/ to_writer_return

SpecDeep == InitDeep /\ [][NextDeep]_vars

(***************************************************************************)
(* Maps built by insert and remove, and compared.                          *)
(***************************************************************************)
InitMap == IdleSerializer /\ IdleDecoder /\ IdleValue

NextMap ==
    \/ Map_insert
    \/ Map_remove
    \/ Map_eq

SpecMap == InitMap /\ [][NextMap]_vars

(***************************************************************************)
(* A Value decoded into a typed shape.                                     *)
(***************************************************************************)
InitValue ==
    /\ IdleSerializer
    /\ IdleDecoder
    /\ lhs = <<>> /\ rhs = <<>> /\ equal = <<>>
    /\ dyn \in Values
    /\ request = ""
    /\ visited = <<>>
    /\ IdleAccess

NextValue ==
    \/ into_rust_signed
    \/ into_rust_unsigned
    \/ into_rust_other

SpecValue == InitValue /\ [][NextValue]_vars

(***************************************************************************)
(* Value::Seq and Value::Map handed to a visitor that reads them to the    *)
(* end.  Elements, keys and values are numbers.                            *)
(***************************************************************************)
MaxItems == 3

RECURSIVE InsertAll(_)
\* the Map after the insertions qs
InsertAll(qs) ==
    IF qs = <<>> THEN <<>>
    ELSE LET q == qs[Len(qs)] IN insert(InsertAll(SubSeq(qs, 1, Len(qs) - 1)), q[1], q[2])

Containers ==
    {[tag |-> "Seq", num |-> 0, items |-> es] : es \in TuplesUpTo(MaxItems, MapKeyValues)}
    \cup {[tag |-> "Map", num |-> 0, items |-> InsertAll(qs)] :
              qs \in TuplesUpTo(MaxItems, MapKeyValues \X MapValues)}

InitAccess ==
    /\ IdleSerializer
    /\ IdleDecoder
    /\ lhs = <<>> /\ rhs = <<>> /\ equal = <<>>
    /\ dyn \in Containers
    /\ request = ""
    /\ visited = <<>>
    /\ IdleAccess

NextAccess ==
    \/ deserialize_any_map
    \/ deserialize_any_seq
    \/ MapAccessor_next_key_seed
    \/ MapAccessor_next_value_seed
    \/ Seq_next_element_seed

SpecAccess == InitAccess /\ [][NextAccess]_vars

(***************************************************************************)
(* Texts that cannot be decoded: a token of the wrong shape at the start   *)
(* of the input, or as a field value of struct S { x: f32, y: f32 }.       *)
(***************************************************************************)
\* whitespace and comments before the value
Prefixes ==
    { <<>>, <<" ">>, <<"\n">>, <<" ", "\n", "\t", " ">>,
      <<"#", " ", "c", "\n", "\n", " ", " ">> }

\* whitespace between tokens
Gaps == { <<>>, <<" ">>, <<"\n", " ", " ", " ", " ">>, <<" ", "#", "c", "\n", "\t">> }

NotANumber == <<"'", "c", "'">>
FloatShape == Leaf("f32", 0)
StructShape == Mk("struct", StructName, 0, <<>>, <<FloatShape, FloatShape>>)

\* what test_err_wrong_value decodes into, and the tokens it decodes
WrongShaped ==
    { <<FloatShape, NotANumber>>,
      <<Mk("str", <<>>, 0, <<>>, <<>>), NotANumber>>,
      <<Mk("map", <<>>, 1, <<>>, <<Leaf("u32", 0), Leaf("u32", 0)>>), NotANumber>>,
      <<Mk("seq", <<>>, 1, <<>>, <<Leaf("u32", 0)>>), NotANumber>>,
      <<Mk("tuple", <<>>, 0, <<>>, <<Leaf("u8", 0), Leaf("bool", 0)>>), NotANumber>>,
      <<Mk("unit_variant", VariantName, 0, <<>>, <<>>), NotANumber>>,
      <<StructShape, NotANumber>>,
      <<StructShape, <<"N", "(", "x", ":", " ", "4", ")">>>>,
      <<Leaf("bool", 0), <<"n", "o", "t", "a", "b", "o", "o", "l">>>>,
      <<Leaf("i32", 0), <<"t", "r", "u", "e">>>> }

\* a value that is no float, or no value at all before the closing brace
WrongFields == { <<"t", "r", "u", "e">>, NotANumber, <<>> }

\* the texts up to the value of field x, and up to the value of field y
UpToX == {p \o <<"S", "{">> \o g \o <<"x", ":">> : p \in Prefixes, g \in Gaps}
UpToY == {t \o <<" ", "3", ".", "5", ",", " ", "\n", " ", " ", " ", " ", "y", ":">> : t \in UpToX}

ErrorCases ==
    {[text |-> p \o w[2], target |-> w[1], token |-> Len(p) + 1] :
        p \in Prefixes, w \in WrongShaped}
    \cup {[text |-> t \o g \o f \o <<"}">>, target |-> StructShape,
           token |-> Len(t \o g) + 1] :
            t \in UpToX \cup UpToY, g \in Gaps, f \in WrongFields}

InitDe ==
    /\ IdleSerializer
    /\ IdleValue
    /\ \E c \in ErrorCases :
          /\ text = c.text
          /\ target = c.target
          /\ token = c.token
    /\ decoded = <<>>
    /\ expected = Dummy
    /\ IdleUntagged

NextDe == from_str_call

SpecDe == InitDe /\ [][NextDe]_vars

(***************************************************************************)
(* Untagged enums: the candidates of de/tests.rs (untagged) and tuples     *)
(* that share a prefix, in every order, over texts that match one          *)
(* candidate, several, or none.                                            *)
(***************************************************************************)
TupleShape(a, b) == Mk("tuple", <<>>, 0, <<>>, <<Leaf(a, 0), Leaf(b, 0)>>)

CandidatePool ==
    {Leaf("u8", 0), Leaf("bool", 0), TupleShape("bool", "u8"), TupleShape("bool", "bool")}

\* the declarations: two or three distinct candidates, in every order
Declarations ==
    {d \in (CandidatePool \X CandidatePool)
            \cup (CandidatePool \X CandidatePool \X CandidatePool) :
        \A i, j \in 1..Len(d) : i # j => d[i] # d[j]}

UntaggedTexts ==
    { <<"t", "r", "u", "e">>, <<"8">>, <<"(", "t", "r", "u", "e", ",", "8", ")">>,
      <<"(", "t", "r", "u", "e", ",", " ", "t", "r", "u", "e", ")">>,
      <<"(", "t", "r", "u", "e", ",", "\n", "'", "c", "'", ")">>,
      <<"'", "c", "'">>, <<"(", "8", ",", "8", ")">>, <<"8", " ", "8">> }

InitUntagged ==
    /\ IdleSerializer
    /\ IdleValue
    /\ \E p \in {<<>>, <<" ">>, <<"\n", " ">>}, t \in UntaggedTexts, d \in Declarations :
          /\ text = p \o t
          /\ target = Mk("untagged", <<>>, 0, <<>>, d)
    /\ token = 0
    /\ decoded = <<>>
    /\ expected = Dummy
    /\ IdleUntagged

NextUntagged ==
    \/ untagged_begin
    \/ untagged_attempt
    \/ untagged_end

SpecUntagged == InitUntagged /\ [][NextUntagged]_vars

(***************************************************************************)
(* Map bodies written from a map, each entry in the colon form or in the   *)
(* bracketed-key form (de/tests.rs, test_map).                             *)
(***************************************************************************)
RECURSIVE ShapeOf(_)
\* the shape of v: v without the payload of its leaves
ShapeOf(v) ==
    [v EXCEPT !.num = IF v.kind \in PrimKinds THEN 0 ELSE @,
              !.kids = [i \in 1..Len(v.kids) |-> ShapeOf(v.kids[i])]]

BoolText(b) == IF b = 1 THEN <<"t", "r", "u", "e">> ELSE <<"f", "a", "l", "s", "e">>

\* the keys: pairs of booleans, and booleans
FormKeys ==
    {Mk("tuple", <<>>, 0, <<>>, <<Leaf("bool", a), Leaf("bool", b)>>) : a, b \in {0, 1}}

FormValues == {Leaf("u8", 4), Leaf("u8", 123)}

\* a key as text; trailing: with a comma after the last member of the tuple
KeyText(k, trailing, gap) ==
    <<"(">> \o BoolText(k.kids[1].num) \o <<",">> \o gap \o BoolText(k.kids[2].num)
    \o (IF trailing THEN <<",">> ELSE <<>>) \o <<")">>

\* an entry as text, in the bracketed-key form or in the colon form
EntryText(k, v, bracketed, trailing, gap) ==
    IF bracketed
    THEN <<"<">> \o KeyText(k, trailing, gap) \o <<">">> \o <<" ">> \o FmtInt(v.num)
    ELSE KeyText(k, trailing, gap) \o <<":">> \o gap \o FmtInt(v.num)

\* how a body is written: the form of each of its two entries, the comma
\* inside the key tuples, the whitespace, the separator and whether one
\* follows the last entry
Styles ==
    [first : BOOLEAN, second : BOOLEAN, trailing : BOOLEAN,
     gap : {<<>>, <<"\n", " ">>}, sep : {",", ";"}, last : BOOLEAN]

\* the body of the map with entries es = <<k1, v1, k2, v2>> or <<k1, v1>>
BodyText(es, st) ==
    <<"{">> \o st.gap
    \o EntryText(es[1], es[2], st.first, st.trailing, st.gap)
    \o (IF Len(es) = 4
        THEN <<st.sep>> \o st.gap \o EntryText(es[3], es[4], st.second, st.trailing, st.gap)
        ELSE <<>>)
    \o (IF st.last THEN <<st.sep>> ELSE <<>>) \o st.gap \o <<"}">>

FormMaps ==
    {Mk("map", <<>>, 1, <<>>, <<k, v>>) : k \in FormKeys, v \in FormValues}
    \cup {Mk("map", <<>>, 1, <<>>, <<ks[1], Leaf("u8", 4), ks[2], v>>) :
             ks \in {p \in FormKeys \X FormKeys : p[1] # p[2]}, v \in FormValues}

InitForms ==
    /\ IdleSerializer
    /\ IdleValue
    /\ \E m \in FormMaps, st \in Styles :
          /\ (Len(m.kids) = 2 => ~st.second)
          /\ expected = m
          /\ target = ShapeOf(m)
          /\ text = BodyText(m.kids, st)
    /\ token = 0
    /\ decoded = <<>>
    /\ IdleUntagged

NextForms == from_str_call

SpecForms == InitForms /\ [][NextForms]_vars

(***************************************************************************)
(* Struct bodies that give the sequence-typed field x one to three times   *)
(* (de/tests.rs, test_struct: MyStruct5), with the field y between or      *)
(* after the occurrences.                                                  *)
(***************************************************************************)
MaxRepeats == 3
MaxSeqLen == 2

SeqOf(vs) == Mk("seq", <<>>, 1, <<>>, vs)

\* the sequences given for x, in textual order
Occurrences ==
    TuplesUpTo(MaxRepeats, {SeqOf(vs) : vs \in TuplesUpTo(MaxSeqLen, {Leaf("u32", 4), Leaf("u32", 5)})})
    \ {<<>>}

RECURSIVE ElemsText(_), Concat(_)
ElemsText(vs) ==
    IF vs = <<>> THEN <<>>
    ELSE FmtInt(Head(vs).num) \o (IF Len(vs) > 1 THEN <<",">> ELSE <<>>) \o ElemsText(Tail(vs))

\* the members of the sequences qs, one sequence after the other
Concat(qs) == IF qs = <<>> THEN <<>> ELSE Head(qs).kids \o Concat(Tail(qs))

RECURSIVE RepeatText(_, _, _, _)
\* x: [..] for each of the sequences qs from the i-th on, y: 7 after the
\* at-th of them
RepeatText(qs, i, at, gap) ==
    IF i > Len(qs) THEN <<>>
    ELSE gap \o <<"x", ":">> \o <<"[">> \o ElemsText(qs[i].kids) \o <<"]", ",">>
         \o (IF i = at THEN gap \o <<"y", ":", "7", ",">> ELSE <<>>)
         \o RepeatText(qs, i + 1, at, gap)

RepeatShape == Mk("struct", StructName, 0, <<>>, <<SeqOf(<<Leaf("u32", 0)>>), Leaf("u8", 0)>>)

InitRepeat ==
    /\ IdleSerializer
    /\ IdleValue
    /\ \E qs \in Occurrences, at \in 1..MaxRepeats, named \in BOOLEAN,
          gap \in {<<>>, <<"\n", " ">>} :
          /\ at <= Len(qs)
          /\ expected = Mk("struct", StructName, 0, <<>>, <<SeqOf(Concat(qs)), Leaf("u8", 7)>>)
          /\ text = (IF named THEN StructName ELSE <<>>) \o <<"{">>
                    \o RepeatText(qs, 1, at, gap) \o gap \o <<"}">>
    /\ target = RepeatShape
    /\ token = 0
    /\ decoded = <<>>
    /\ IdleUntagged

NextRepeat == from_str_call

SpecRepeat == InitRepeat /\ [][NextRepeat]_vars

(***************************************************************************)
(* Number literals given to the dynamic number reader (de/tests.rs,        *)
(* de_any_number): magnitudes on both sides of every width, written        *)
(* without a sign, with '+' and with '-', with and without underscores.    *)
(***************************************************************************)
Magnitudes ==
    {<<0, 0, 0, n>> : n \in {0, 1, 127, 128, 129, 255, 256, 1234, 32767, 32768, 65535}}
    \cup {<<0, 0, 1, 0>>, <<0, 0, 32767, 65535>>, <<0, 0, 32768, 0>>, <<0, 0, 65535, 65535>>,
          <<0, 1, 0, 0>>, <<32767, 65535, 65535, 65535>>, <<32768, 0, 0, 0>>,
          <<65535, 65535, 65535, 65535>>}

\* mag divided by ten, and the remainder
DivMod10(mag) ==
    LET B == 65536
        a3 == mag[1]
        a2 == (a3 % 10) * B + mag[2]
        a1 == (a2 % 10) * B + mag[3]
        a0 == (a1 % 10) * B + mag[4]
    IN  [quot |-> <<a3 \div 10, a2 \div 10, a1 \div 10, a0 \div 10>>, rem |-> a0 % 10]

RECURSIVE DecimalDigits(_)
\* the decimal digits of mag, the most significant first
DecimalDigits(mag) ==
    LET d == DivMod10(mag)
    IN  (IF d.quot = Zero64 THEN <<>> ELSE DecimalDigits(d.quot)) \o <<DigitChars[d.rem + 1]>>

UnderscoreStyles == {"none", "each", "thousands"}

RECURSIVE Underscored(_, _)
\* the digits ds with underscores between them: none, one after each digit,
\* or one before each group of three
Underscored(ds, style) ==
    IF Len(ds) <= 1 THEN ds
    ELSE <<Head(ds)>>
         \o (IF style = "each" \/ (style = "thousands" /\ (Len(ds) - 1) % 3 = 0)
             THEN <<"_">> ELSE <<>>)
         \o Underscored(Tail(ds), style)

\* the literals of test_any_number_precision that have a decimal point
PointLiterals ==
    {<<"-", "1", ".", "0">>, <<"1", ".">>, <<"-", "1", ".">>, <<"0", ".", "3">>,
     <<"1", "_", "0", ".", "5">>}

any_num_call ==
    /\ decoded = <<>>
    /\ expected.kind = "literal"
    /\ decoded' = <<any_num(text, StartCursor)>>
    /\ UNCHANGED <<serVars, text, target, token, expected, cursor, snapshot, candidate,
                   last, valueVars>>

InitAnyNum ==
    /\ IdleSerializer
    /\ IdleValue
    /\ \/ \E mag \in Magnitudes, sign \in {"", "+", "-"}, style \in UnderscoreStyles :
             /\ LessEq64(mag, IF sign = "" THEN MaxOf("u64")
                              ELSE IF sign = "-" THEN MinOf("i64") ELSE MaxOf("i64"))
             /\ expected = [kind |-> "literal", point |-> FALSE, sign |-> sign, mag |-> mag]
             /\ text = (IF sign = "" THEN <<>> ELSE <<sign>>)
                       \o Underscored(DecimalDigits(mag), style)
       \/ \E t \in PointLiterals :
             /\ expected = [kind |-> "literal", point |-> TRUE, sign |-> "", mag |-> Zero64]
             /\ text = t
    /\ target = Dummy
    /\ token = 0
    /\ decoded = <<>>
    /\ IdleUntagged

NextAnyNum == any_num_call

SpecAnyNum == InitAnyNum /\ [][NextAnyNum]_vars


(***************************************************************************)
(* The properties.                                                         *)
(***************************************************************************)
Count(ch, s) == Cardinality({i \in 1..Len(s) : s[i] = ch})

RECURSIVE Bare(_, _, _)
\* the text t from position i on, with every string and character literal
\* replaced by the one character "L"
Bare(t, i, inString) ==
    IF i > Len(t) THEN <<>>
    ELSE IF inString
         THEN IF t[i] = "\\" THEN Bare(t, i + 2, TRUE)
              ELSE IF t[i] = "\"" THEN Bare(t, i + 1, FALSE)
                   ELSE Bare(t, i + 1, TRUE)
         ELSE IF t[i] = "\"" THEN <<"L">> \o Bare(t, i + 1, TRUE)
              ELSE IF t[i] = "'"
                   THEN <<"L">> \o Bare(t, i + (IF t[i + 1] = "\\" THEN 4 ELSE 3), FALSE)
                   ELSE <<t[i]>> \o Bare(t, i + 1, FALSE)

RECURSIVE Separators(_), SeparatorsIn(_)
\* the commas that separate the elements, entries and fields of v and of
\* the values inside it
Separators(v) ==
    LET n == IF v.kind = "map" THEN Len(v.kids) \div 2 ELSE Len(v.kids)
    IN  (IF v.kind \in WrapperKinds \/ n = 0 THEN 0 ELSE n - 1) + SeparatorsIn(v.kids)
SeparatorsIn(vs) ==
    IF vs = <<>> THEN 0 ELSE Separators(Head(vs)) + SeparatorsIn(Tail(vs))

PrimitiveKinds == {"bool", "char", "str"} \cup SIntKinds \cup UIntKinds

\* C1: decoding the text written for a primitive value (bool, char, integer
\* of any width, string) gives back that value, in canonical mode and in
\* pretty mode with any PrettyConfig.
C1_PrimitiveRoundTrip ==
    (decoded # <<>> /\ result = "Ok" /\ value.kind \in PrimitiveKinds)
        => (decoded[1].ok /\ decoded[1].val = value)

C1_Witness ==
    /\ decoded # <<>> /\ result = "Ok"
    /\ config.some
    /\ value = Mk("str", <<>>, 0, <<"\"", "\\">>, <<>>)
    /\ decoded[1].ok /\ decoded[1].val = value

\* C2: for every value and every PrettyConfig, decoding the text written by
\* to_string_pretty succeeds and gives back the value.
C2_PrettyRoundTrip ==
    (decoded # <<>> /\ result = "Ok" /\ config.some)
        => (decoded[1].ok /\ decoded[1].val = value)

\* kinds of value whose text holds no parenthesis
ParenFreeKinds == {"bool", "none", "unit_variant", "char"} \cup FloatKinds

\* C3: a newtype variant V with a bool payload is written V(<bool>); with a
\* struct payload it is written V(<fields>) with one pair of parentheses:
\* the struct writes no parenthesis of its own and not its name.
C3_NewtypeVariantParens ==
    (result = "Ok" /\ value.kind = "newtype_variant") =>
        LET payload == value.kids[1]
        IN  /\ payload.kind = "bool" =>
                 output = VariantName \o <<"(">>
                          \o (IF payload.num = 1 THEN <<"t", "r", "u", "e">>
                              ELSE <<"f", "a", "l", "s", "e">>)
                          \o <<")">>
            /\ (/\ payload.kind = "struct"
                /\ \A i \in 1..Len(payload.kids) : payload.kids[i].kind \in ParenFreeKinds) =>
                 /\ SubSeq(output, 1, Len(VariantName) + 1) = VariantName \o <<"(">>
                 /\ output[Len(output)] = ")"
                 /\ Count("(", output) = 1
                 /\ Count(")", output) = 1
                 /\ Count(StructName[1], output) = 0

C3_Witness ==
    /\ result = "Ok"
    /\ value = Mk("newtype_variant", VariantName, 0, <<>>,
                  <<Mk("struct", StructName, 0, <<>>, <<Leaf("bool", 1)>>)>>)
    /\ struct_names
    /\ output = <<"V", "(", "\n", " ", " ", " ", " ", "x", ":", " ",
                  "t", "r", "u", "e", ",", "\n", ")">>

\* payloads whose content is empty
EmptyPayloads ==
    {Leaf("unit", 0), Mk("tuple", <<>>, 0, <<>>, <<>>),
     Mk("struct", StructName, 0, <<>>, <<>>)}

IsNewtypeStructOfEmpty(v) ==
    v.kind = "newtype_struct" /\ v.kids[1] \in EmptyPayloads

\* C4: a unit, tuple or struct payload of a newtype struct adds no
\* delimiters of its own, wherever the newtype struct occurs: at the top
\* level, as a sequence element and as a field value only the wrapper's one
\* pair of parentheses is written (here in canonical mode, around empty
\* content).
C4_NewtypeStructPayload ==
    (result = "Ok" /\ ~config.some) =>
        /\ IsNewtypeStructOfEmpty(value) => output = <<"(", ")">>
        /\ (value.kind = "seq" /\ Len(value.kids) = 1
            /\ IsNewtypeStructOfEmpty(value.kids[1])) =>
                 output = <<"[", "(", ")", "]">>
        /\ (value.kind = "struct_variant" /\ Len(value.kids) = 1
            /\ IsNewtypeStructOfEmpty(value.kids[1])) =>
                 output = VariantName \o <<"(">> \o FieldNames[1] \o <<":", "(", ")", ")">>

\* C5: in canonical mode a tuple variant is written as its identifier, "(",
\* its elements separated by single commas without a trailing one, ")", and
\* decoding that text gives back the variant with the same payload.
C5_TupleVariantRoundTrip ==
    (decoded # <<>> /\ result = "Ok" /\ ~config.some /\ value.kind = "tuple_variant") =>
        /\ SubSeq(output, 1, Len(VariantName) + 1) = VariantName \o <<"(">>
        /\ output[Len(output)] = ")"
        /\ output[Len(output) - 1] # ","
        /\ Count(",", Bare(output, 1, FALSE)) = Separators(value)
        /\ decoded[1].ok
        /\ decoded[1].val = value

\* C6: in canonical mode the output has no whitespace outside string and
\* character literals, one comma between consecutive elements, entries and
\* fields, and no comma before a closing delimiter.
C6_CanonicalSeparators ==
    (result = "Ok" /\ ~config.some) =>
        LET bare == Bare(output, 1, FALSE)
        IN  /\ \A i \in 1..Len(bare) : ~IsWhitespace(bare[i])
            /\ Count(",", bare) = Separators(value)
            /\ \A i \in 1..Len(bare) :
                  bare[i] = "," =>
                      /\ 1 < i /\ i < Len(bare)
                      /\ bare[i - 1] \notin {",", "(", "[", "{"}
                      /\ bare[i + 1] \notin {",", ")", "]", "}"}

C6_Witness ==
    /\ result = "Ok" /\ ~config.some
    /\ value.kind = "struct_variant"
    /\ value.kids = <<Leaf("char", 2), Mk("seq", <<>>, 1, <<>>, <<>>)>>
    /\ output = <<"V", "(", "x", ":", "'", " ", "'", ",", "y", ":", "[", "]", ")">>

\* C7: a serialization call returns Ok when every write to the sink
\* succeeds and the only error it returns is a failed write of the sink:
\* it does not panic, while it has not returned it has a next step whatever
\* the value and the PrettyConfig, and a failed write ends it at once.
C7_OnlySinkErrors ==
    /\ result # "panic"
    /\ result = "Err(Io)" => (sink = "faulty" /\ ~ENABLED Next)
    /\ result = "running" => ENABLED Next
    /\ (sink = "vec" /\ result # "running") => result = "Ok"

C7_Witness ==
    /\ result = "Err(Io)"
    /\ sink = "faulty"
    /\ config.some
    /\ value.kind = "seq"
    /\ Len(output) > 2

\* C8: Map equality is true exactly when the two maps agree, key and value,
\* on their first min(len, len) entries in iteration order; so a proper
\* prefix equals the longer map and the empty map equals every map.
C8_MapEqComparesPrefix ==
    equal # <<>> =>
        LET n == IF Len(lhs) < Len(rhs) THEN Len(lhs) ELSE Len(rhs)
        IN  equal[1] = (\A i \in 1..n : lhs[i] = rhs[i])

C8_Witness ==
    /\ equal = <<TRUE>>
    /\ lhs # <<>>
    /\ Len(lhs) < Len(rhs)

\* C9: decoding a negative Value::Number(Integer(i)) into u8, u16, u32 or u64
\* fails with the type-mismatch error and hands no number to the visitor.
C9_NegativeIntoUnsignedFails ==
    (visited # <<>> /\ request \in UnsignedMethods /\ dyn.tag = "Integer" /\ dyn.num < 0)
        => visited[1] = ExpectedANumber

LineOf(t, i) == 1 + Cardinality({j \in 1..(i - 1) : t[j] = "\n"})
ColumnOf(t, i) ==
    LET breaks == {j \in 1..(i - 1) : t[j] = "\n"}
    IN  i - (IF breaks = {} THEN 0 ELSE CHOOSE j \in breaks : \A k \in breaks : k <= j)

\* C10: a parse failure reports the line and column of the first character
\* of the token that cannot be decoded: past the whitespace and comments
\* before it, and not at the construct around it.
C10_ErrorPosition ==
    (decoded # <<>> /\ token > 0) =>
        /\ ~decoded[1].ok
        /\ decoded[1].cur.line = LineOf(text, token)
        /\ decoded[1].cur.col = ColumnOf(text, token)

C10_Witness ==
    /\ decoded # <<>>
    /\ text = <<"S", "{", "\n", " ", " ", " ", " ", "x", ":", " ", "t", "r", "u", "e", "}">>
    /\ decoded[1].code = "ExpectedFloat"
    /\ decoded[1].cur.line = 2
    /\ decoded[1].cur.col = 8

\* the candidates of the declaration whose production matches at the snapshot
Matching == {i \in 1..Len(target.kids) : ParseValue(text, snapshot, target.kids[i]).ok}

\* what decoding the i-th candidate alone, from the snapshot, returns
Alone(i) ==
    LET r == ParseValue(text, snapshot, target.kids[i])
        end == SkipWs(text, r.cur)
    IN  IF ~r.ok THEN r
        ELSE IF At(text, end) # "" THEN Err("TrailingCharacters", end)
             ELSE Ok(Mk("untagged", <<>>, i, <<>>, <<r.val>>), end)

C11_State ==
    target.kind = "untagged" =>
        /\ (decoded = <<>> /\ candidate > 0) =>
               /\ cursor = snapshot
               /\ \A i \in 1..(candidate - 1) : i \notin Matching
        /\ decoded # <<>> =>
               IF Matching = {} THEN decoded[1] = Alone(Len(target.kids))
               ELSE decoded[1] = Alone(CHOOSE i \in Matching : \A j \in Matching : i <= j)

C11_Order ==
    /\ candidate' \in {candidate, candidate + 1, 0}
    /\ snapshot' # snapshot => candidate = 0

C12_EntryForms ==
    (decoded # <<>> /\ expected.kind = "map" /\ target.kind = "map")
        => (decoded[1].ok /\ decoded[1].val = expected)

C12_Witness ==
    /\ decoded # <<>> /\ decoded[1].ok
    /\ text = <<"{", "<", "(", "t", "r", "u", "e", ",", "f", "a", "l", "s", "e", ")", ">",
               " ", "4", ",", "<", "(", "f", "a", "l", "s", "e", ",", "f", "a", "l", "s",
               "e", ")", ">", " ", "1", "2", "3", "}">>
    /\ Len(decoded[1].val.kids) = 4
    /\ decoded[1].val.kids[3].kids = <<Leaf("bool", 0), Leaf("bool", 0)>>
    /\ decoded[1].val.kids[4] = Leaf("u8", 123)

\* C13: when a struct body gives the key of a sequence-typed field more
\* than once, the field decodes to the concatenation, in textual order, of
\* the sequences given for it: none is dropped or overwritten and no
\* duplicate-field error is raised.
C13_RepeatedKeyAccumulates ==
    (decoded # <<>> /\ target = RepeatShape /\ expected.kind = "struct")
        => (decoded[1].ok /\ decoded[1].val = expected)

C13_Witness ==
    /\ decoded # <<>> /\ decoded[1].ok
    /\ text = <<"S", "{", "x", ":", "[", "4", "]", ",", "x", ":", "[", "5", "]", ",",
               "y", ":", "7", ",", "}">>
    /\ decoded[1].val.kids[1].kids = <<Leaf("u32", 4), Leaf("u32", 5)>>

\* mag < 2^e, read off the limbs
Below2Pow(mag, e) ==
    LET k == 4 - (e \div 16)
    IN  /\ \A i \in 1..4 : i < k => mag[i] = 0
        /\ k >= 1 => mag[k] < 2 ^ (e % 16)

\* mag = 2^e
Is2Pow(mag, e) ==
    \A i \in 1..4 : mag[i] = (IF i = 4 - (e \div 16) THEN 2 ^ (e % 16) ELSE 0)

BitsOf(kind) ==
    CASE kind \in {"u8", "i8"} -> 8
      [] kind \in {"u16", "i16"} -> 16
      [] kind \in {"u32", "i32"} -> 32
      [] kind \in {"u64", "i64"} -> 64

\* a value of the given sign and magnitude is a value of the integer type
FitsWidth(kind, neg, mag) ==
    IF kind \in UIntKinds THEN ~neg /\ Below2Pow(mag, BitsOf(kind))
    ELSE \/ Below2Pow(mag, BitsOf(kind) - 1)
         \/ neg /\ Is2Pow(mag, BitsOf(kind) - 1)

\* C14: the dynamic number reader classifies an integer literal written
\* without a sign as the narrowest unsigned width (8, 16, 32, 64 bits) that
\* holds its magnitude and one written with '+' or '-' as the narrowest
\* signed width that holds its value; underscores between the digits change
\* neither the value nor the width.
C14_AnyNumNarrowest ==
    (decoded # <<>> /\ expected.kind = "literal" /\ ~expected.point)
        => /\ decoded[1].ok
           /\ decoded[1].val.mag = expected.mag
           /\ decoded[1].val.neg = (expected.sign = "-" /\ expected.mag # Zero64)
           /\ decoded[1].val.kind \in (IF expected.sign = "" THEN UIntKinds ELSE SIntKinds)
           /\ FitsWidth(decoded[1].val.kind, decoded[1].val.neg, expected.mag)
           /\ \A other \in (IF expected.sign = "" THEN UIntKinds ELSE SIntKinds) :
                  FitsWidth(other, decoded[1].val.neg, expected.mag)
                      => BitsOf(decoded[1].val.kind) <= BitsOf(other)

C14_Witness ==
    /\ decoded # <<>> /\ decoded[1].ok
    /\ text = <<"+", "1", "_", "2", "_", "8">>
    /\ decoded[1].val = AnyNum("i16", FALSE, <<0, 0, 0, 128>>)

\* the text s ends with the text w
EndsWith(s, w) == Len(s) >= Len(w) /\ SubSeq(s, Len(s) - Len(w) + 1, Len(s)) = w

\* the driver hands the next element of the innermost open sequence over
ElementStep ==
    /\ AtFrame("seq") /\ Top.rest # <<>>
    /\ result' = "running" /\ cur' = <<Head(Top.rest)>>

\* C15: with enumerate_arrays enabled in pretty mode, within the depth
\* limit, the k-th element (k = 0, 1, 2, ...) of every sequence is
\* immediately preceded by the index marker for k: each sequence starts at 0
\* and a nested sequence neither changes nor resets the counter of the
\* enclosing one.
C15_IndexMarkers ==
    [][(ElementStep /\ config.some /\ config.enumerate_arrays /\ indent <= config.depth_limit)
           => /\ EndsWith(output', IndexMarker(Top.taken))
              /\ Len(output') >= Len(output) + Len(IndexMarker(Top.taken))]_vars

C15_Witness ==
    /\ value = Mk("seq", <<>>, 1, <<>>, <<Mk("seq", <<>>, 1, <<>>, <<Leaf("bool", 1)>>), Leaf("bool", 1)>>)
    /\ config.some /\ config.enumerate_arrays /\ ~config.compact_arrays
    /\ config.depth_limit = USIZE_MAX
    /\ result = "running" /\ Len(stack) = 1 /\ Top.taken = 2 /\ cur # <<>>
    /\ EndsWith(output, IndexMarker(1))

\* the text a step appends to the output
Appended == SubSeq(output', Len(output) + 1, Len(output'))

\* the text s contains the text w
Contains(s, w) == \E i \in 1..(Len(s) - Len(w) + 1) : SubSeq(s, i, i + Len(w) - 1) = w

\* the text s begins with the text w
HasPrefix(s, w) == Len(s) >= Len(w) /\ SubSeq(s, 1, Len(w)) = w

\* a composite of this kind calls start_indent under the configuration
Indents(kind) ==
    \/ kind \in {"struct", "map"}
    \/ kind = "seq" /\ ~config.compact_arrays
    \/ kind = "tuple" /\ config.separate_tuple_members

RECURSIVE Deepest(_)
\* the indent level of the deepest composite of v, v being written at level 0
Deepest(v) ==
    LET below == {Deepest(v.kids[i]) : i \in 1..Len(v.kids)}
        most == IF below = {} THEN 0 ELSE CHOOSE d \in below : \A e \in below : e <= d
    IN  most + (IF Indents(v.kind) THEN 1 ELSE 0)

\* the innermost open composite is handed its next element, entry or field
MemberStep ==
    /\ result = "running" /\ cur = <<>> /\ stack # <<>> /\ Top.rest # <<>>
    /\ Top.phase = "key"
    /\ result' = "running" /\ cur' # <<>>

\* the innermost open composite is closed
EndStep ==
    /\ result = "running" /\ cur = <<>> /\ stack # <<>> /\ Top.rest = <<>>
    /\ result' = "running" /\ Len(stack') = Len(stack) - 1

\* an indenting composite with members is opened
OpenStep ==
    /\ result = "running" /\ cur # <<>> /\ Indents(cur[1].kind) /\ cur[1].kids # <<>>
    /\ result' = "running" /\ Len(stack') = Len(stack) + 1

\* a step between the delimiters of a composite beyond the depth limit
DeepFlush ==
    (config.some /\ result' = "running" /\ stack # <<>>
     /\ (indent > config.depth_limit \/ (OpenStep /\ indent' > config.depth_limit)))
        => /\ ~Contains(Appended, NEW_LINE)
           /\ ~Contains(Appended, INDENTOR)
           /\ (MemberStep /\ Top.state = "Rest")
                  => HasPrefix(Appended, <<",">> \o SEPARATOR)
           /\ EndStep => ~Contains(Appended, <<",">>)

\* a step of an indenting composite within the depth limit, in a value that
\* has a composite beyond it
ShallowLayout ==
    (config.some /\ result' = "running" /\ Deepest(value) > config.depth_limit)
        => /\ (OpenStep /\ indent' <= config.depth_limit)
                  => EndsWith(Appended, NEW_LINE)
           /\ (MemberStep /\ Indents(Top.kind) /\ indent <= config.depth_limit)
                  => LET lead == (IF Top.state = "Rest" THEN <<",">> \o NEW_LINE ELSE <<>>)
                                 \o Repeat(INDENTOR, indent)
                     IN  HasPrefix(Appended, lead)
           /\ (EndStep /\ Indents(Top.kind) /\ Top.state = "Rest"
                /\ indent <= config.depth_limit)
                  => LET close == <<",">> \o NEW_LINE \o Repeat(INDENTOR, indent - 1)
                     IN  /\ HasPrefix(Appended, close)
                         /\ Len(Appended) <= Len(close) + 1

\* C16: in pretty mode an indenting composite (struct, map, non-compact
\* sequence, separated tuple) at an indent level beyond depth_limit is
\* written with no newline and no indent unit between its delimiters, its
\* members separated by a comma and the separator, with no trailing comma;
\* the composites within the limit keep their newlines and indentation
\* before and after it.
C16_DepthLimit == [][DeepFlush /\ ShallowLayout]_vars

RECURSIVE CountKinds(_, _)
\* the values of the given kinds in v, v included
CountKinds(v, kinds) ==
    LET RECURSIVE Sum(_)
        Sum(i) == IF i > Len(v.kids) THEN 0 ELSE CountKinds(v.kids[i], kinds) + Sum(i + 1)
    IN  (IF v.kind \in kinds THEN 1 ELSE 0) + Sum(1)

\* the places of the text s where the text w is written
Places(s, w) == {i \in 1..(Len(s) - Len(w) + 1) : SubSeq(s, i, i + Len(w) - 1) = w}

\* C17: with struct_names enabled in pretty mode every struct and every
\* tuple struct, at any position, the top-level value included, has its
\* type name written immediately before its opening parenthesis; with
\* struct_names disabled, or in canonical mode, no struct type name is
\* written.
C17_StructNames ==
    (result = "Ok" /\ KindsOf(value) \cap {"str", "char"} = {})
        => IF struct_names
           THEN /\ value.kind \in {"struct", "tuple_struct"}
                       => HasPrefix(output, write_identifier(StructName) \o <<"(">>)
                /\ Cardinality(Places(output, write_identifier(StructName) \o <<"(">>))
                       >= CountKinds(value, {"struct", "tuple_struct"})
           ELSE Places(output, StructName) = {}

\* a newtype variant is being serialized
InNewtypeVariant == \E i \in 1..Len(stack) : stack[i].kind = "newtype_variant"

\* C18: while a newtype variant is being serialized the flag set for its
\* payload is reset by the first value-emitting call after it is set, so it
\* is false when any value nested deeper than the immediate payload is
\* handed over, and a unit inside a newtype struct that is the payload is
\* written with its own parentheses.
C18_FlagResetByFirstCall ==
    /\ (result = "running" /\ cur # <<>> /\ InNewtypeVariant /\ Top.kind # "newtype_variant")
           => ~newtype_variant
    /\ (result = "Ok" /\ ~config.some /\ value.kind = "newtype_variant"
        /\ value.kids[1].kind = "newtype_struct" /\ value.kids[1].kids[1].kind = "unit")
           => output = write_identifier(VariantName) \o <<"(", "(", "(", ")", ")", ")">>

\* the value stored under key k in the Map m
Stored(m, k) == (CHOOSE e \in {m[i] : i \in 1..Len(m)} : e[1] = k)[2]

\* what a visitor that reads the container c to the end is given, in order
Due(c) ==
    IF c.tag = "Seq"
    THEN [i \in 1..(Len(c.items) + 1) |->
             IF i <= Len(c.items) THEN [call |-> "element", arg |-> <<c.items[i]>>]
             ELSE [call |-> "None", arg |-> <<>>]]
    ELSE [i \in 1..(2 * Len(c.items) + 1) |->
             IF i > 2 * Len(c.items) THEN [call |-> "None", arg |-> <<>>]
             ELSE IF i % 2 = 1 THEN [call |-> "key", arg |-> <<c.items[(i + 1) \div 2][1]>>]
                  ELSE [call |-> "value",
                        arg |-> <<Stored(c.items, c.items[i \div 2][1])>>]]

\* C19: a Value::Seq or Value::Map decoded into a typed shape hands the
\* visitor its elements or entries in iteration order, each exactly once,
\* and then the end signal; for a Map the value that follows the i-th key
\* is the value stored under that key.
C19_AccessInOrder ==
    dyn.tag \in {"Seq", "Map"}
        => /\ Len(seen) <= Len(Due(dyn))
           /\ seen = SubSeq(Due(dyn), 1, Len(seen))
           /\ (request # "" /\ ~ENABLED NextAccess) => seen = Due(dyn)

C19_Witness ==
    /\ dyn = [tag |-> "Map", num |-> 0, items |-> <<<<0, 1>>, <<1, 0>>, <<2, 1>>>>]
    /\ Ended
    /\ Len(seen) = 7
    /\ seen[3] = [call |-> "key", arg |-> <<1>>] /\ seen[4] = [call |-> "value", arg |-> <<0>>]

\* C20: a freshly created Serializer has its flag cleared and the flag is
\* true only between the parentheses written by serialize_newtype_variant:
\* a top-level unit is written "()" and a top-level tuple or struct is
\* enclosed in its own pair of parentheses.
C20_FlagOnlyInsideNewtypeVariant ==
    /\ (result = "running" /\ newtype_variant) => InNewtypeVariant
    /\ (result = "Ok" /\ value.kind = "unit") => output = <<"(", ")">>
    /\ (result = "Ok" /\ value.kind \in {"tuple", "struct"})
           => /\ HasPrefix(output, (IF struct_names /\ value.kind = "struct"
                                    THEN write_identifier(value.name) ELSE <<>>) \o <<"(">>)
              /\ EndsWith(output, <<")">>)

(***************************************************************************)
(* Delimiters.                                                             *)
(***************************************************************************)
\* the delimiter that closes what the delimiter d opens
Closer(d) == IF d = "(" THEN ")" ELSE IF d = "[" THEN "]" ELSE "}"

RECURSIVE Unclosed(_, _, _)
\* the closing delimiters the text t still owes from position i on, innermost
\* last, open being the ones owed before i; <<"unbalanced">> when t closes a
\* delimiter that is not the innermost open one
Unclosed(t, i, open) ==
    IF i > Len(t) THEN open
    ELSE IF t[i] \in {"(", "[", "{"}
         THEN Unclosed(t, i + 1, Append(open, Closer(t[i])))
         ELSE IF t[i] \in {")", "]", "}"}
              THEN IF open # <<>> /\ open[Len(open)] = t[i]
                   THEN Unclosed(t, i + 1, SubSeq(open, 1, Len(open) - 1))
                   ELSE <<"unbalanced">>
              ELSE Unclosed(t, i + 1, open)

RECURSIVE Owed(_)
\* the closing delimiters the open composites of the frames st will write,
\* innermost last: a tuple's or a struct's Compound writes one only when
\* its newtype_variant is false
Owed(st) ==
    IF st = <<>> THEN <<>>
    ELSE LET f == st[Len(st)]
             own == IF f.kind = "seq" THEN <<"]">>
                    ELSE IF f.kind = "map" THEN <<"}">>
                    ELSE IF f.kind \in {"tuple", "struct"}
                         THEN (IF f.newtype_variant THEN <<>> ELSE <<")">>)
                         ELSE <<")">>
         IN  Owed(SubSeq(st, 1, Len(st) - 1)) \o own

\* C21: in canonical and in pretty mode the parentheses, square brackets
\* and braces written outside string and character literals are balanced and
\* properly nested: at every point of the emission the delimiters still
\* open in the output are exactly those of the open composites that wrote
\* an opening one (a tuple, tuple struct or struct closes its parenthesis if
\* and only if its Compound recorded at open time that it opened one, a
\* sequence and a map always write both), and the finished output leaves
\* none open
C21_DelimitersBalanced ==
    result \in {"running", "Ok"}
        => /\ Unclosed(Bare(output, 1, FALSE), 1, <<>>) = Owed(stack)
           /\ result = "Ok" => Unclosed(Bare(output, 1, FALSE), 1, <<>>) = <<>>

\* a newtype variant whose payload is a tuple holding a unit: the tuple
\* opens without a parenthesis, the unit clears the serializer's flag, and
\* the tuple still closes without one
C21_Witness ==
    /\ result = "Ok"
    /\ value.kind = "newtype_variant"
    /\ value.kids[1].kind = "tuple"
    /\ Len(value.kids[1].kids) = 1
    /\ value.kids[1].kids[1].kind = "unit"
    /\ Count("(", output) = 2 /\ Count(")", output) = 2

(***************************************************************************)
(* The indent level and the index stack.                                   *)
(***************************************************************************)
\* the open composites whose kind is among kinds
OpenOf(kinds) == {i \in 1..Len(stack) : stack[i].kind \in kinds}

\* the open composites that called start_indent
OpenIndented == {i \in 1..Len(stack) : Indents(stack[i].kind)}

\* C22: in pretty mode, after any sequence of emission calls, pretty.indent
\* is the number of open composites that called start_indent and
\* sequence_index holds one counter per open sequence; so no end_indent
\* decrements an indent of 0, no element index is read from an empty stack
\* (either would end the call in a panic), and the finished call leaves
\* indent 0 and an empty index stack, whatever compact_arrays and
\* separate_tuple_members are
C22_IndentCountsOpenComposites ==
    config.some
        => /\ result # "panic"
           /\ result \in {"running", "Ok"}
                  => /\ indent = Cardinality(OpenIndented)
                     /\ Len(sequence_index) = Cardinality(OpenOf({"seq"}))
           /\ result = "Ok" => indent = 0 /\ sequence_index = <<>>

\* a tuple open inside a sequence, arrays compact and tuple members on
\* their own lines: the sequence pushed a counter without indenting, the
\* tuple indented without pushing
C22_Witness ==
    /\ config.some /\ result = "running"
    /\ config.compact_arrays /\ config.separate_tuple_members
    /\ config.enumerate_arrays
    /\ Len(stack) = 2 /\ stack[1].kind = "seq" /\ stack[2].kind = "tuple"
    /\ stack[2].state = "Rest"
    /\ indent = 1 /\ Len(sequence_index) = 1 /\ sequence_index[1] = 1

(***************************************************************************)
(* The closing line of a struct or map, and the is_empty marker.           *)
(***************************************************************************)
\* a struct or map that has members closes on a line of its own, after
\* one indent unit less than its level
ClosesOnOwnLine ==
    (Top.kind \in {"struct", "map"} /\ Top.state = "Rest")
        => LET close == <<",">> \o NEW_LINE \o Repeat(INDENTOR, indent - 1)
           IN  /\ HasPrefix(Appended, close)
               /\ Len(Appended) <= Len(close) + 1
               /\ Appended[Len(Appended)] \in {")", "}"} \/ Top.newtype_variant

\* the marker end_indent finds, if there is one, tells whether the
\* composite that is closing has members
MarkerIsOwn ==
    Indents(Top.kind)
        => /\ is_empty = "Some(true)" => Top.state = "First"
           /\ is_empty = "Some(false)" => Top.state = "Rest"

\* C23: in pretty mode within the depth limit, every non-empty struct or
\* map open at indent level d writes its closing delimiter on its own line
\* after exactly d - 1 indent units, whatever its members and the
\* configuration are, and the is_empty marker consulted when a composite
\* closes is not one another composite left behind
C23_ClosingLine ==
    [][(config.some /\ EndStep /\ indent <= config.depth_limit)
           => ClosesOnOwnLine /\ MarkerIsOwn]_vars

====
